---- MODULE Spec2Model ----
(***************************************************************************)
(* Region selection (floodFill) and grid path search (dijkstra, astar) of  *)
(* the canvas library, src/src/lib/canvas.                                 *)
(*                                                                         *)
(* SpecFlood runs one floodFill call, one loop iteration per step.         *)
(* SpecPath runs dijkstra and then astar on the same arguments, one heap   *)
(* pop per step.                                                           *)
(***************************************************************************)
EXTENDS Integers, Sequences, FiniteSets, TLC

VARIABLES
    \* ---- floodFill: arguments
    imageData,      \* [width, height, data]: data[i] is the <<r, g, b>> of pixel i
    startX, startY, \* the seed
    options,        \* [tolerance, contiguous, maxPixels]
    \* ---- floodFill: locals
    seed,           \* <<seedR, seedG, seedB>>, NoColor when read outside data
    mask,           \* Uint8ClampedArray(width * height)
    visited,        \* Uint8Array(width * height)
    pixels,         \* number[]
    box,            \* [minX, minY, maxX, maxY]
    queue,          \* number[], pairs x, y; popped from its end
    scan,           \* global mode: y * width + x of the raster scan
    hitLimit,       \* contiguous mode's flag
    floodPc,        \* "idle" | "call" | "bfs" | "scan" | "break" | "done"
    floodResult,    \* the SegmentationResult returned
    \* ---- dijkstra, astar: arguments
    costMap,        \* [width, height, costs]: costs[i] in fixed point, Scale = 1.0
    start, end,     \* Points [x, y], coordinates in halves (x = 3 is 1.5)
    pathOptions,    \* [neighborMode, directionContinuityCost, cursorInfluence, maxIterations]
    \* ---- dijkstra, astar: locals
    heap,           \* MinHeap.heap: entries [priority, value], value = [x, y, prevDir]
    dist,           \* dijkstra's Map key -> best known distance
    gScore,         \* astar's Map key -> best known distance
    fScore,         \* astar's Map key -> gScore + heuristic
    prev,           \* Map key -> predecessor key
    iterations,
    pathPc,         \* "idle" | "dijkstra" | "dijkstraLoop" | "astar" | "astarLoop" | "done"
    dijkstraResult, \* the PathfindingResult of dijkstra
    astarResult,    \* the PathfindingResult of astar
    \* ---- path utilities: one call
    utilPath,       \* the path argument: Points [x, y] with integer coordinates
    utilEpsilon,    \* simplifyPath's epsilon, in halves
    utilResult,     \* the value returned
    utilPc,         \* "idle" | "call" | "done"
    \* ---- LassoEngine: fields
    lassoOptions,   \* this.options
    lassoCostMap,   \* this.costMap, NoMap until computeEdgeMap
    isActive,       \* state.isActive
    currentPath,    \* state.currentPath: NoPath or [points, anchors, isClosed, totalLength]
    lazyCursor,     \* state.lazyCursor: [outerPosition, innerPosition, radius, smoothingFactor]
    previewPath,    \* state.previewPath
    metrics,        \* state.metrics: [fps, totalPathPoints, anchorCount, edgeQuality, cursorSpeed]
    trajectoryHistory,
    lastAnchorTime,
    frameCount,
    fpsUpdateTime,
    \* ---- LassoEngine: environment
    now,            \* performance.now(), in ms
    uuidCount,      \* the ids uuid() has handed out
    calls,          \* the calls made to the engine, those of its options apart
    optionChanges,  \* the calls of setOptions and setVariation
    lastCall,       \* [op, returned]: the latest call and what it returned
    \* ---- lassoPathToMask: arguments, locals and the value returned
    maskPath,       \* [points, isClosed], coordinates in halves of a pixel
    maskWidth, maskHeight,
    maskOut,        \* Uint8ClampedArray(width * height)
    maskRow,        \* y of the scanline loop
    maskPc,         \* "idle" | "call" | "rows" | "done"
    \* ---- computeEdgeMap: one call
    edgeImage,      \* the ImageData argument
    edgeOptions,    \* [edgeMethod, edgeThreshold] of this.options
    edgeMap,        \* state.edgeMap: the red channel of the detected edges
    edgeCostMap,    \* this.costMap
    edgePc          \* "idle" | "call" | "done"

floodVars == <<imageData, startX, startY, options, seed, mask, visited, pixels,
               box, queue, scan, hitLimit, floodPc, floodResult>>

pathVars == <<costMap, start, end, pathOptions, heap, dist, gScore, fScore, prev,
              iterations, pathPc, dijkstraResult, astarResult>>

utilVars == <<utilPath, utilEpsilon, utilResult, utilPc>>

lassoVars == <<lassoOptions, lassoCostMap, isActive, currentPath, lazyCursor, previewPath,
               metrics, trajectoryHistory, lastAnchorTime, frameCount, fpsUpdateTime,
               now, uuidCount, calls, optionChanges, lastCall>>

maskVars == <<maskPath, maskWidth, maskHeight, maskOut, maskRow, maskPc>>

edgeVars == <<edgeImage, edgeOptions, edgeMap, edgeCostMap, edgePc>>

vars == <<floodVars, pathVars, utilVars, lassoVars, maskVars, edgeVars>>

\* What a step of one component leaves alone.
exceptFlood == <<pathVars, utilVars, lassoVars, maskVars, edgeVars>>
exceptPath == <<floodVars, utilVars, lassoVars, maskVars, edgeVars>>
exceptUtil == <<floodVars, pathVars, lassoVars, maskVars, edgeVars>>
exceptLasso == <<floodVars, pathVars, utilVars, maskVars, edgeVars>>
exceptMask == <<floodVars, pathVars, utilVars, lassoVars, edgeVars>>
exceptEdge == <<floodVars, pathVars, utilVars, lassoVars, maskVars>>

\* ---------------------------------------------------------------- bounds
MaxW == 4
MaxH == 4
\* Largest number of pixels of an image that is not uniform.
MaxArea == 9
\* Pixels of an image that differ from its background colour.
MaxOdd == 2
\* Largest maxPixels option tried.
MaxCap == 2
\* Largest cost field: width, height, and number of cells.
MaxFieldW == 3
MaxFieldH == 2
MaxCells == 6
\* Cells of a cost field that differ from its background cost.
MaxBumps == 1
\* The small maxIterations option tried next to the engine's 50000.
MaxSmallIterations == 2

\* ---------------------------------------------------------------- values
\* An absent optional number (maxPixels?: number) and a NaN: no number the
\* calls below pass or compute is negative.
Undefined == -1
\* The channels read outside the pixel data.
NoColor == <<>>

Black == <<0, 0, 0>>
Dark == <<3, 0, 0>>
White == <<255, 255, 255>>
Red == <<255, 0, 0>>

Min(a, b) == IF a <= b THEN a ELSE b
Max(a, b) == IF a >= b THEN a ELSE b

\* ---------------------------------------------------------------- floodFill

\* data[i] of a typed array: undefined outside it.
PixelAt(img, pixelIndex) ==
    IF pixelIndex \in DOMAIN img.data THEN img.data[pixelIndex] ELSE NoColor

\* dr*dr + dg*dg + db*db, the square of colorDifference; NaN (Undefined) when a
\* channel is undefined.
ColorDifference2(c1, c2) ==
    IF c1 = NoColor \/ c2 = NoColor THEN Undefined
    ELSE (c1[1] - c2[1]) * (c1[1] - c2[1])
       + (c1[2] - c2[2]) * (c1[2] - c2[2])
       + (c1[3] - c2[3]) * (c1[3] - c2[3])

\* Mutant: the tolerance is ignored and every pixel is accepted.
WithinToleranceAlways(d2, tolerance) == TRUE

\* diff <= toleranceThreshold, with toleranceThreshold = (tolerance / 255) * 441.67
\* and diff = sqrt(d2): 25500 * sqrt(d2) <= 44167 * tolerance, decided exactly in
\* integers that fit 32 bits (tolerance in 0..255). A NaN diff compares false.
WithinTolerance(d2, tolerance) ==
    IF d2 = Undefined THEN FALSE
    ELSE LET L == 44167 * tolerance
             q == L \div 25500
             r == L % 25500
             m == d2 - q * q
         IN  IF m <= 0 THEN TRUE
             ELSE IF m > 2 * q THEN FALSE
             ELSE m * 25500 <= 2 * q * r + ((r * r) \div 25500)

\* Mutant: the start point check forgets the lower edge.
StartOutOfBoundsNoBottom(x, y, width, height) ==
    x < 0 \/ x >= width \/ y < 0

\* The start point check of floodFill.
StartOutOfBounds(x, y, width, height) ==
    x < 0 \/ x >= width \/ y < 0 \/ y >= height

\* The bounds check of the contiguous loop.
OutOfBounds(x, y, width, height) ==
    x < 0 \/ x >= width \/ y < 0 \/ y >= height

\* Mutant: the limit is tested with > instead of >=.
LimitReachedLate(maxPixels, n) ==
    maxPixels # Undefined /\ maxPixels # 0 /\ n > maxPixels

\* maxPixels && pixels.length >= maxPixels: false for undefined and for 0.
LimitReached(maxPixels, n) ==
    maxPixels # Undefined /\ maxPixels # 0 /\ n >= maxPixels

\* Global mode's hitLimit: maxPixels !== undefined && pixels.length >= maxPixels.
GlobalHitLimit(maxPixels, n) ==
    maxPixels # Undefined /\ n >= maxPixels

\* Mutant: the upward neighbour is not pushed.
PushNeighborsNoUp(q, x, y) ==
    q \o <<x + 1, y, x - 1, y, x, y + 1>>

\* Mutant: a diagonal neighbour is pushed as well.
PushNeighborsDiagonal(q, x, y) ==
    q \o <<x + 1, y, x - 1, y, x, y + 1, x, y - 1, x + 1, y + 1>>

\* queue.push(x + 1, y); queue.push(x - 1, y); queue.push(x, y + 1); queue.push(x, y - 1)
PushNeighbors(q, x, y) ==
    q \o <<x + 1, y, x - 1, y, x, y + 1, x, y - 1>>

\* Mutant: width and height without the + 1.
BoundsOfNoPlusOne(b) ==
    [x |-> b.minX, y |-> b.minY,
     width |-> b.maxX - b.minX, height |-> b.maxY - b.minY]

\* The bounds record of the result.
BoundsOf(b) ==
    [x |-> b.minX, y |-> b.minY,
     width |-> b.maxX - b.minX + 1, height |-> b.maxY - b.minY + 1]

\* minX = Math.min(minX, x) ... maxY = Math.max(maxY, y)
GrowBox(b, x, y) ==
    [minX |-> Min(b.minX, x), minY |-> Min(b.minY, y),
     maxX |-> Max(b.maxX, x), maxY |-> Max(b.maxY, y)]

\* Mutant: the mask starts out with every entry selected.
FullMask(img) == [i \in 0 .. (img.width * img.height - 1) |-> 255]

ZeroMask(img) == [i \in 0 .. (img.width * img.height - 1) |-> 0]

EmptyResult(img) ==
    [mask |-> ZeroMask(img),
     bounds |-> [x |-> 0, y |-> 0, width |-> 0, height |-> 0],
     pixels |-> <<>>, hitLimit |-> FALSE, pixelCount |-> 0]

\* ---- the images, seeds and options tried

Sizes == (1 .. MaxW) \X (1 .. MaxH)

UniformImage(w, h, c) ==
    [width |-> w, height |-> h, data |-> [i \in 0 .. (w * h - 1) |-> c]]

\* A black image with the pixels of odd painted in colour c.
Painted(w, h, odd, c) ==
    [width |-> w, height |-> h,
     data |-> [i \in 0 .. (w * h - 1) |-> IF i \in odd THEN c ELSE Black]]

OddSets(w, h) == {s \in SUBSET (0 .. (w * h - 1)) : Cardinality(s) <= MaxOdd}

Images ==
    {UniformImage(wh[1], wh[2], Red) : wh \in Sizes}
    \cup UNION { {Painted(wh[1], wh[2], odd, c) : odd \in OddSets(wh[1], wh[2]),
                                                  c \in {Dark, White}}
                 : wh \in {z \in Sizes : z[1] * z[2] <= MaxArea} }

Tolerances == {0, 5, 10}
MaxPixelsOptions == {Undefined} \cup (0 .. MaxCap)

FloodIdle ==
    /\ seed = NoColor
    /\ mask = <<>>
    /\ visited = <<>>
    /\ pixels = <<>>
    /\ box = [minX |-> 0, minY |-> 0, maxX |-> 0, maxY |-> 0]
    /\ queue = <<>>
    /\ scan = 0
    /\ hitLimit = FALSE
    /\ floodResult = <<>>

\* No path is turned into a mask.
MaskUnused ==
    /\ maskPath = <<>>
    /\ maskWidth = 0
    /\ maskHeight = 0
    /\ maskOut = <<>>
    /\ maskRow = 0
    /\ maskPc = "idle"

\* No edge map is computed.
EdgeUnused ==
    /\ edgeImage = <<>>
    /\ edgeOptions = <<>>
    /\ edgeMap = <<>>
    /\ edgeCostMap = <<>>
    /\ edgePc = "idle"

\* No path utility is called.
UtilUnused ==
    /\ utilPath = <<>>
    /\ utilEpsilon = 0
    /\ utilResult = <<>>
    /\ utilPc = "idle"

\* No engine is constructed.
LassoUnused ==
    /\ lassoOptions = <<>>
    /\ lassoCostMap = <<>>
    /\ isActive = FALSE
    /\ currentPath = <<>>
    /\ lazyCursor = <<>>
    /\ previewPath = <<>>
    /\ metrics = <<>>
    /\ trajectoryHistory = <<>>
    /\ lastAnchorTime = 0
    /\ frameCount = 0
    /\ fpsUpdateTime = 0
    /\ now = 0
    /\ uuidCount = 0
    /\ calls = 0
    /\ optionChanges = 0
    /\ lastCall = <<>>

\* No path search is running.
PathIdle ==
    /\ costMap = <<>>
    /\ start = <<>>
    /\ end = <<>>
    /\ pathOptions = <<>>
    /\ heap = <<>>
    /\ dist = <<>>
    /\ gScore = <<>>
    /\ fScore = <<>>
    /\ prev = <<>>
    /\ iterations = 0
    /\ pathPc = "idle"
    /\ dijkstraResult = <<>>
    /\ astarResult = <<>>

InitFlood ==
    /\ imageData \in Images
    /\ startX \in (-1) .. imageData.width
    /\ startY \in (-1) .. imageData.height
    /\ options \in [tolerance : Tolerances, contiguous : BOOLEAN,
                    maxPixels : MaxPixelsOptions]
    /\ FloodIdle
    /\ floodPc = "call"
    /\ PathIdle
    /\ UtilUnused
    /\ LassoUnused
    /\ MaskUnused
    /\ EdgeUnused

\* floodFill up to the mode split: validate the start point, read the seed colour,
\* allocate mask, visited and pixels, initialise the bounds tracking.
FloodFillEnter ==
    /\ floodPc = "call"
    /\ IF StartOutOfBounds(startX, startY, imageData.width, imageData.height)
       THEN /\ floodResult' = EmptyResult(imageData)
            /\ floodPc' = "done"
            /\ UNCHANGED <<seed, mask, visited, pixels, box, queue, scan, hitLimit>>
       ELSE /\ seed' = PixelAt(imageData, startY * imageData.width + startX)
            /\ mask' = ZeroMask(imageData)
            /\ visited' = ZeroMask(imageData)
            /\ pixels' = <<>>
            /\ box' = [minX |-> imageData.width, minY |-> imageData.height,
                       maxX |-> 0, maxY |-> 0]
            /\ queue' = IF options.contiguous THEN <<startX, startY>> ELSE <<>>
            /\ scan' = 0
            /\ hitLimit' = FALSE
            /\ floodPc' = IF options.contiguous THEN "bfs" ELSE "scan"
            /\ UNCHANGED floodResult
    /\ UNCHANGED <<imageData, startX, startY, options>>
    /\ UNCHANGED exceptFlood

\* One iteration of the contiguous loop: pop y then x from the end of queue.
ContiguousStep ==
    /\ floodPc = "bfs"
    /\ Len(queue) > 0
    /\ LET y == queue[Len(queue)]
           x == queue[Len(queue) - 1]
           rest == SubSeq(queue, 1, Len(queue) - 2)
           pixelIndex == y * imageData.width + x
       IN  IF OutOfBounds(x, y, imageData.width, imageData.height)
           THEN /\ queue' = rest
                /\ UNCHANGED <<mask, visited, pixels, box, hitLimit, floodPc>>
           ELSE IF visited[pixelIndex] # 0
           THEN /\ queue' = rest
                /\ UNCHANGED <<mask, visited, pixels, box, hitLimit, floodPc>>
           ELSE /\ visited' = [visited EXCEPT ![pixelIndex] = 1]
                /\ IF WithinTolerance(ColorDifference2(PixelAt(imageData, pixelIndex), seed),
                                      options.tolerance)
                   THEN /\ mask' = [mask EXCEPT ![pixelIndex] = 255]
                        /\ pixels' = Append(pixels, pixelIndex)
                        /\ box' = GrowBox(box, x, y)
                        /\ IF LimitReached(options.maxPixels, Len(pixels) + 1)
                           THEN /\ hitLimit' = TRUE
                                /\ floodPc' = "break"
                                /\ queue' = rest
                           ELSE /\ queue' = PushNeighbors(rest, x, y)
                                /\ UNCHANGED <<hitLimit, floodPc>>
                   ELSE /\ queue' = rest
                        /\ UNCHANGED <<mask, pixels, box, hitLimit, floodPc>>
    /\ UNCHANGED <<imageData, startX, startY, options, seed, scan, floodResult>>
    /\ UNCHANGED exceptFlood

\* The contiguous loop has ended (empty queue, or break): build the result.
ContiguousReturn ==
    /\ \/ floodPc = "bfs" /\ Len(queue) = 0
       \/ floodPc = "break" /\ options.contiguous
    /\ floodResult' = [mask |-> mask, bounds |-> BoundsOf(box), pixels |-> pixels,
                       hitLimit |-> hitLimit, pixelCount |-> Len(pixels)]
    /\ floodPc' = "done"
    /\ UNCHANGED <<imageData, startX, startY, options, seed, mask, visited, pixels,
                   box, queue, scan, hitLimit>>
    /\ UNCHANGED exceptFlood

\* One pixel of the global raster scan (row by row, x innermost).
GlobalStep ==
    /\ floodPc = "scan"
    /\ scan < imageData.width * imageData.height
    /\ LET pixelIndex == scan
           x == scan % imageData.width
           y == scan \div imageData.width
       IN  IF WithinTolerance(ColorDifference2(PixelAt(imageData, pixelIndex), seed),
                              options.tolerance)
           THEN /\ mask' = [mask EXCEPT ![pixelIndex] = 255]
                /\ pixels' = Append(pixels, pixelIndex)
                /\ box' = GrowBox(box, x, y)
                /\ floodPc' = IF LimitReached(options.maxPixels, Len(pixels) + 1)
                              THEN "break" ELSE "scan"
           ELSE UNCHANGED <<mask, pixels, box, floodPc>>
    /\ scan' = scan + 1
    /\ UNCHANGED <<imageData, startX, startY, options, seed, visited, queue,
                   hitLimit, floodResult>>
    /\ UNCHANGED exceptFlood

\* The scan has ended (all rows done, or both loops broken out of): build the result.
GlobalReturn ==
    /\ \/ floodPc = "scan" /\ scan >= imageData.width * imageData.height
       \/ floodPc = "break" /\ ~options.contiguous
    /\ floodResult' = [mask |-> mask, bounds |-> BoundsOf(box), pixels |-> pixels,
                       hitLimit |-> GlobalHitLimit(options.maxPixels, Len(pixels)),
                       pixelCount |-> Len(pixels)]
    /\ floodPc' = "done"
    /\ UNCHANGED <<imageData, startX, startY, options, seed, mask, visited, pixels,
                   box, queue, scan, hitLimit>>
    /\ UNCHANGED exceptFlood

NextFlood ==
    \/ FloodFillEnter
    \/ ContiguousStep
    \/ ContiguousReturn
    \/ GlobalStep
    \/ GlobalReturn

SpecFlood == InitFlood /\ [][NextFlood]_vars

\* The call runs on: floodFill is one synchronous function, so a step that can be
\* taken is taken.
SpecFloodFair == SpecFlood /\ WF_vars(NextFlood)

\* ---------------------------------------------------------------- Pathfinding

\* Reals are fixed point: Scale stands for 1.0, and products and roots are
\* truncated to 1 / Scale.
Scale == 100 * 100

\* Math.PI in fixed point; the eight move directions are its multiples of 1/4.
Pi == 31416

\* cost: Infinity of a failed search.
Infinity == 2000000000

\* F(v), with v evaluated once however often F reads it: a local constant of the
\* source.
With(v, F(_)) == CHOOSE r \in {F(x) : x \in {v}} : TRUE

\* floor(sqrt(n)), by bisection.
RECURSIVE SqrtBetween(_, _, _)
SqrtBetween(n, lo, hi) ==
    IF lo >= hi THEN lo
    ELSE With((lo + hi + 1) \div 2, LAMBDA mid :
              IF mid * mid <= n THEN SqrtBetween(n, mid, hi)
              ELSE SqrtBetween(n, lo, mid - 1))

\* floor(sqrt(d2) * Scale): the largest r = 100 * a + b with
\* r * r <= d2 * Scale * Scale, found digit pair by digit pair so that no product
\* leaves 32 bits.
ScaledSqrt(d2) ==
    LET a == SqrtBetween(d2 * Scale, 0, 46340)
        m == d2 * Scale - a * a
        Fits(b) == 200 * a * b + b * b <= Scale * m
        b == CHOOSE c \in 0 .. 99 : Fits(c) /\ (c = 99 \/ ~Fits(c + 1))
    IN  100 * a + b

\* The roots of the small arguments, computed once.
SqrtTable == [d2 \in 0 .. 64 |-> ScaledSqrt(d2)]

\* Math.sqrt of the integer d2, in fixed point.
MathSqrt(d2) == IF d2 \in DOMAIN SqrtTable THEN SqrtTable[d2] ELSE ScaledSqrt(d2)

\* Math.SQRT2
Sqrt2 == MathSqrt(2)

\* Math.round of a coordinate given in halves.
MathRound(halves) == (halves + 1) \div 2

\* Math.atan2(dy, dx) for the offsets of NEIGHBORS_8.
Atan2(dy, dx) ==
    CASE dx = 1 /\ dy = 0 -> 0
      [] dx = 1 /\ dy = 1 -> Pi \div 4
      [] dx = 0 /\ dy = 1 -> Pi \div 2
      [] dx = -1 /\ dy = 1 -> (3 * Pi) \div 4
      [] dx = -1 /\ dy = 0 -> Pi
      [] dx = -1 /\ dy = -1 -> 0 - ((3 * Pi) \div 4)
      [] dx = 0 /\ dy = -1 -> 0 - (Pi \div 2)
      [] dx = 1 /\ dy = -1 -> 0 - (Pi \div 4)

Abs(a) == IF a < 0 THEN 0 - a ELSE a

\* atan(2^-i) for i = 0 .. 13, in units of 1 / Scale.
AtanTable == <<7854, 4636, 2450, 1244, 624, 312, 156, 78, 39, 20, 10, 5, 2, 1>>

\* The angle of the vector (x, y), x > 0, found by rotating it onto the x axis in
\* steps of atan(2^-i); z is the angle turned so far.
RECURSIVE AtanSteps(_, _, _, _)
AtanSteps(x, y, z, i) ==
    IF i > Len(AtanTable) \/ y = 0 THEN z
    ELSE IF y > 0
    THEN AtanSteps(x + y \div (2 ^ (i - 1)), y - x \div (2 ^ (i - 1)),
                   z + AtanTable[i], i + 1)
    ELSE AtanSteps(x - y \div (2 ^ (i - 1)), y + x \div (2 ^ (i - 1)),
                   z - AtanTable[i], i + 1)

\* Math.atan2(dy, dx) for any offsets of at most 4 pixels in fixed point: exact
\* multiples of pi / 4 on the axes and diagonals, within 0.001 elsewhere.
MathAtan2(dy, dx) ==
    IF dx = 0 /\ dy = 0 THEN 0
    ELSE IF dy = 0 THEN (IF dx > 0 THEN 0 ELSE Pi)
    ELSE IF dx = 0 THEN (IF dy > 0 THEN Pi \div 2 ELSE 0 - (Pi \div 2))
    ELSE IF Abs(dx) = Abs(dy)
    THEN (IF dy > 0 THEN 1 ELSE -1) * (IF dx > 0 THEN Pi \div 4 ELSE (3 * Pi) \div 4)
    ELSE IF dx > 0 THEN AtanSteps(dx * 8192, dy * 8192, 0, 1)
    ELSE IF dy > 0 THEN Pi + AtanSteps((0 - dx) * 8192, (0 - dy) * 8192, 0, 1)
    ELSE AtanSteps((0 - dx) * 8192, (0 - dy) * 8192, 0, 1) - Pi

\* ---- MinHeap (heap[1] is the code's heap[0])

HeapSwap(h, i, j) == [h EXCEPT ![i] = h[j], ![j] = h[i]]

RECURSIVE BubbleUp(_, _)
BubbleUp(h, index) ==
    IF index <= 1 THEN h
    ELSE LET parentIndex == index \div 2
         IN  IF h[parentIndex].priority <= h[index].priority THEN h
             ELSE BubbleUp(HeapSwap(h, parentIndex, index), parentIndex)

RECURSIVE BubbleDown(_, _)
BubbleDown(h, index) ==
    LET left == 2 * index
        right == 2 * index + 1
        s1 == IF left <= Len(h) /\ h[left].priority < h[index].priority
              THEN left ELSE index
        smallest == IF right <= Len(h) /\ h[right].priority < h[s1].priority
                    THEN right ELSE s1
    IN  IF smallest = index THEN h
        ELSE BubbleDown(HeapSwap(h, smallest, index), smallest)

\* Mutant: push without bubbleUp.
HeapPushNoBubble(h, priority, value) ==
    Append(h, [priority |-> priority, value |-> value])

HeapPush(h, priority, value) ==
    BubbleUp(Append(h, [priority |-> priority, value |-> value]), Len(h) + 1)

\* The heap after pop(); pop() returns h[1].value.
HeapPop(h) ==
    LET last == h[Len(h)]
        rest == SubSeq(h, 1, Len(h) - 1)
    IN  IF Len(rest) > 0 THEN BubbleDown([rest EXCEPT ![1] = last], 1) ELSE rest

\* ---- cost field and neighbours

GetCostAt(cm, x, y) ==
    IF x < 0 \/ x >= cm.width \/ y < 0 \/ y >= cm.height THEN Infinity
    ELSE cm.costs[y * cm.width + x]

NEIGHBORS_4 ==
    << [dx |-> 0, dy |-> -1, cost |-> Scale], [dx |-> 1, dy |-> 0, cost |-> Scale],
       [dx |-> 0, dy |-> 1, cost |-> Scale], [dx |-> -1, dy |-> 0, cost |-> Scale] >>

NEIGHBORS_8 ==
    << [dx |-> 0, dy |-> -1, cost |-> Scale], [dx |-> 1, dy |-> -1, cost |-> Sqrt2],
       [dx |-> 1, dy |-> 0, cost |-> Scale], [dx |-> 1, dy |-> 1, cost |-> Sqrt2],
       [dx |-> 0, dy |-> 1, cost |-> Scale], [dx |-> -1, dy |-> 1, cost |-> Sqrt2],
       [dx |-> -1, dy |-> 0, cost |-> Scale], [dx |-> -1, dy |-> -1, cost |-> Sqrt2] >>

GetNeighbors(x, y, mode) ==
    LET neighbors == IF mode = 4 THEN NEIGHBORS_4 ELSE NEIGHBORS_8
    IN  [i \in 1 .. Len(neighbors) |->
            [x |-> x + neighbors[i].dx, y |-> y + neighbors[i].dy,
             moveCost |-> neighbors[i].cost]]

PointKey(x, y) == y * 100000 + x
KeyX(key) == key % 100000
KeyY(key) == key \div 100000

\* Map.set
MapSet(m, k, v) == [x \in (DOMAIN m) \cup {k} |-> IF x = k THEN v ELSE m[x]]

\* map.get(k) || 0
GetOrZero(m, k) == IF k \in DOMAIN m THEN m[k] ELSE 0

\* Mutant: the move is weighted by the cost of the cell alone, without the 0.01.
StepCostNoFloor(moveCost, edgeCost) == (moveCost * edgeCost) \div Scale

\* neighbor.moveCost * (edgeCost + 0.01)
StepCost(moveCost, edgeCost) == (moveCost * (edgeCost + (Scale \div 100))) \div Scale

\* The direction continuity cost of leaving current towards (nx, ny).
DirCost(current, nx, ny, directionContinuityCost) ==
    IF current.prevDir >= 0 /\ directionContinuityCost > 0
    THEN LET currentDir == Atan2(ny - current.y, nx - current.x)
             dirDiff == Abs(currentDir - current.prevDir)
         IN  (directionContinuityCost * Min(dirDiff, Pi * 2 - dirDiff)) \div Pi
    ELSE 0

\* Math.sqrt((x1 - x2) ** 2 + (y1 - y2) ** 2)
Heuristic(x1, y1, x2, y2) == MathSqrt((x2 - x1) * (x2 - x1) + (y2 - y1) * (y2 - y1))

\* (cursorInfluence / 100) * distToEnd * 0.01
CursorCost(cursorInfluence, distToEnd) == (cursorInfluence * distToEnd) \div (100 * 100)

\* heuristic(...) * (1 + cursorInfluence / 100)
WeightedHeuristic(h, cursorInfluence) == (h * (100 + cursorInfluence)) \div 100

StartCell == [x |-> MathRound(start.x), y |-> MathRound(start.y)]
EndCell == [x |-> MathRound(end.x), y |-> MathRound(end.y)]
StartKey == PointKey(StartCell.x, StartCell.y)
EndKey == PointKey(EndCell.x, EndCell.y)

\* The path rebuilt from prev: unshift from the end key back to the start key,
\* then unshift the start.
RECURSIVE WalkBackTo(_, _, _, _)
WalkBackTo(startCell, key, pv, acc) ==
    IF key = Undefined \/ key = PointKey(startCell.x, startCell.y)
    THEN <<startCell>> \o acc
    ELSE WalkBackTo(startCell, IF key \in DOMAIN pv THEN pv[key] ELSE Undefined, pv,
                    <<[x |-> KeyX(key), y |-> KeyY(key)]>> \o acc)

\* The same, in the search the path variables hold.
WalkBack(key, pv, acc) == WalkBackTo(StartCell, key, pv, acc)

FailedSearch(n) ==
    [path |-> <<>>, cost |-> Infinity, iterations |-> n, success |-> FALSE]

\* One pass of dijkstra's loop over the neighbours, from neighbour i on, in the
\* search of field cm with options opts towards endCell; st = [dist, prev, heap].
RECURSIVE DijkstraRelaxIn(_, _, _, _, _, _, _)
DijkstraRelaxIn(cm, opts, endCell, st, current, neighbors, i) ==
    IF i > Len(neighbors) THEN st
    ELSE LET neighbor == neighbors[i]
         IN  IF neighbor.x < 0 \/ neighbor.x >= cm.width
                \/ neighbor.y < 0 \/ neighbor.y >= cm.height
             THEN DijkstraRelaxIn(cm, opts, endCell, st, current, neighbors, i + 1)
             ELSE LET neighborKey == PointKey(neighbor.x, neighbor.y)
                      edgeCost == GetCostAt(cm, neighbor.x, neighbor.y)
                      dirCost == DirCost(current, neighbor.x, neighbor.y,
                                         opts.directionContinuityCost)
                      distToEnd == Heuristic(neighbor.x, neighbor.y, endCell.x, endCell.y)
                      cursorCost == CursorCost(opts.cursorInfluence, distToEnd)
                      totalCost == GetOrZero(st.dist, PointKey(current.x, current.y))
                                   + StepCost(neighbor.moveCost, edgeCost)
                                   + dirCost + cursorCost
                  IN  IF neighborKey \notin DOMAIN st.dist \/ totalCost < st.dist[neighborKey]
                      THEN DijkstraRelaxIn(cm, opts, endCell,
                             [dist |-> MapSet(st.dist, neighborKey, totalCost),
                              prev |-> MapSet(st.prev, neighborKey,
                                              PointKey(current.x, current.y)),
                              heap |-> HeapPush(st.heap, totalCost,
                                         [x |-> neighbor.x, y |-> neighbor.y,
                                          prevDir |-> Atan2(neighbor.y - current.y,
                                                            neighbor.x - current.x)])],
                             current, neighbors, i + 1)
                      ELSE DijkstraRelaxIn(cm, opts, endCell, st, current, neighbors, i + 1)

\* The same, in the search the path variables hold.
DijkstraRelax(st, current, neighbors, i) ==
    DijkstraRelaxIn(costMap, pathOptions, EndCell, st, current, neighbors, i)

\* One pass of astar's loop over the neighbours; st = [gScore, fScore, prev, heap].
RECURSIVE AstarRelaxIn(_, _, _, _, _, _, _)
AstarRelaxIn(cm, opts, endCell, st, current, neighbors, i) ==
    IF i > Len(neighbors) THEN st
    ELSE LET neighbor == neighbors[i]
         IN  IF neighbor.x < 0 \/ neighbor.x >= cm.width
                \/ neighbor.y < 0 \/ neighbor.y >= cm.height
             THEN AstarRelaxIn(cm, opts, endCell, st, current, neighbors, i + 1)
             ELSE LET neighborKey == PointKey(neighbor.x, neighbor.y)
                      edgeCost == GetCostAt(cm, neighbor.x, neighbor.y)
                      dirCost == DirCost(current, neighbor.x, neighbor.y,
                                         opts.directionContinuityCost)
                      tentativeG == GetOrZero(st.gScore, PointKey(current.x, current.y))
                                    + StepCost(neighbor.moveCost, edgeCost)
                                    + dirCost
                      h == WeightedHeuristic(
                             Heuristic(neighbor.x, neighbor.y, endCell.x, endCell.y),
                             opts.cursorInfluence)
                  IN  IF neighborKey \notin DOMAIN st.gScore
                         \/ tentativeG < st.gScore[neighborKey]
                      THEN AstarRelaxIn(cm, opts, endCell,
                             [gScore |-> MapSet(st.gScore, neighborKey, tentativeG),
                              fScore |-> MapSet(st.fScore, neighborKey, tentativeG + h),
                              prev |-> MapSet(st.prev, neighborKey,
                                              PointKey(current.x, current.y)),
                              heap |-> HeapPush(st.heap, tentativeG + h,
                                         [x |-> neighbor.x, y |-> neighbor.y,
                                          prevDir |-> Atan2(neighbor.y - current.y,
                                                            neighbor.x - current.x)])],
                             current, neighbors, i + 1)
                      ELSE AstarRelaxIn(cm, opts, endCell, st, current, neighbors, i + 1)

\* The same, in the search the path variables hold.
AstarRelax(st, current, neighbors, i) ==
    AstarRelaxIn(costMap, pathOptions, EndCell, st, current, neighbors, i)

\* dijkstra's loop run to its return, from the state st = [dist, prev, heap,
\* iterations], between the cells startCell and endCell of field cm.
RECURSIVE DijkstraLoop(_, _, _, _, _)
DijkstraLoop(cm, opts, startCell, endCell, st) ==
    IF ~(Len(st.heap) > 0 /\ st.iterations < opts.maxIterations)
    THEN FailedSearch(st.iterations)
    ELSE LET current == st.heap[1].value
             popped == HeapPop(st.heap)
             endKey == PointKey(endCell.x, endCell.y)
         IN  IF PointKey(current.x, current.y) = endKey
             THEN [path |-> WalkBackTo(startCell, endKey, st.prev, <<>>),
                   cost |-> GetOrZero(st.dist, endKey),
                   iterations |-> st.iterations + 1,
                   success |-> TRUE]
             ELSE With(DijkstraRelaxIn(cm, opts, endCell,
                                       [dist |-> st.dist, prev |-> st.prev,
                                        heap |-> popped],
                                       current,
                                       GetNeighbors(current.x, current.y,
                                                    opts.neighborMode), 1),
                       LAMBDA r :
                           DijkstraLoop(cm, opts, startCell, endCell,
                                        [dist |-> r.dist, prev |-> r.prev,
                                         heap |-> r.heap,
                                         iterations |-> st.iterations + 1]))

\* dijkstra(start, end, costMap, options) as one call, start and end already
\* rounded to cells.
DijkstraSearch(startCell, endCell, cm, opts) ==
    DijkstraLoop(cm, opts, startCell, endCell,
                 [dist |-> MapSet(<<>>, PointKey(startCell.x, startCell.y), 0),
                  prev |-> <<>>,
                  heap |-> HeapPush(<<>>, 0, [x |-> startCell.x, y |-> startCell.y,
                                              prevDir |-> -1]),
                  iterations |-> 0])

\* astar's loop run to its return; st = [gScore, fScore, prev, heap, iterations].
RECURSIVE AstarLoop(_, _, _, _, _)
AstarLoop(cm, opts, startCell, endCell, st) ==
    IF ~(Len(st.heap) > 0 /\ st.iterations < opts.maxIterations)
    THEN FailedSearch(st.iterations)
    ELSE LET current == st.heap[1].value
             popped == HeapPop(st.heap)
             endKey == PointKey(endCell.x, endCell.y)
         IN  IF PointKey(current.x, current.y) = endKey
             THEN [path |-> WalkBackTo(startCell, endKey, st.prev, <<>>),
                   cost |-> GetOrZero(st.gScore, endKey),
                   iterations |-> st.iterations + 1,
                   success |-> TRUE]
             ELSE With(AstarRelaxIn(cm, opts, endCell,
                                    [gScore |-> st.gScore, fScore |-> st.fScore,
                                     prev |-> st.prev, heap |-> popped],
                                    current,
                                    GetNeighbors(current.x, current.y,
                                                 opts.neighborMode), 1),
                       LAMBDA r :
                           AstarLoop(cm, opts, startCell, endCell,
                                     [gScore |-> r.gScore, fScore |-> r.fScore,
                                      prev |-> r.prev, heap |-> r.heap,
                                      iterations |-> st.iterations + 1]))

\* astar(start, end, costMap, options) as one call, start and end already rounded
\* to cells.
AstarSearch(startCell, endCell, cm, opts) ==
    LET h0 == Heuristic(startCell.x, startCell.y, endCell.x, endCell.y)
        startKey == PointKey(startCell.x, startCell.y)
    IN  AstarLoop(cm, opts, startCell, endCell,
                  [gScore |-> MapSet(<<>>, startKey, 0),
                   fScore |-> MapSet(<<>>, startKey, h0),
                   prev |-> <<>>,
                   heap |-> HeapPush(<<>>, h0, [x |-> startCell.x, y |-> startCell.y,
                                                prevDir |-> -1]),
                   iterations |-> 0])

\* ---- the cost fields, end points and options tried

FieldSizes == {wh \in (1 .. MaxFieldW) \X (1 .. MaxFieldH) : wh[1] * wh[2] <= MaxCells}

CostLevels == {0, Scale \div 2, Scale}

BumpSets(w, h) == {s \in SUBSET (0 .. (w * h - 1)) : Cardinality(s) <= MaxBumps}

\* A field of cost base with the cells of bumps at cost other.
Field(w, h, base, bumps, other) ==
    [width |-> w, height |-> h,
     costs |-> [i \in 0 .. (w * h - 1) |-> IF i \in bumps THEN other ELSE base]]

\* The flat fields of every level, and the fields of cost 0 or 1 with bumps of
\* the other.
CostMaps ==
    UNION { {Field(wh[1], wh[2], base, {}, base) : base \in CostLevels}
            \cup {Field(wh[1], wh[2], base, bumps, Scale - base) :
                     base \in {0, Scale}, bumps \in BumpSets(wh[1], wh[2])}
            : wh \in FieldSizes }

\* The centres of the cells of cm.
CellPoints(cm) ==
    {[x |-> 2 * cx, y |-> 2 * cy] : cx \in 0 .. (cm.width - 1), cy \in 0 .. (cm.height - 1)}

\* A point right of the field, next to its last column, and one a cell further.
OutsidePoints(cm) == {[x |-> 2 * cm.width, y |-> 0], [x |-> 2 * cm.width + 2, y |-> 0]}

\* Points between cell centres: (0.5, 0.5) rounds to cell (1, 1) and (-0.5, 0) to
\* cell (0, 0).
HalfPoints == {[x |-> 1, y |-> 1], [x |-> -1, y |-> 0]}

DirectionContinuityCosts == {0, Scale \div 2}
CursorInfluences == {0, 20}
MaxIterationsOptions == {0, MaxSmallIterations, 50000}

\* No floodFill call is running.
FloodUnused ==
    /\ imageData = <<>>
    /\ startX = 0
    /\ startY = 0
    /\ options = <<>>
    /\ FloodIdle
    /\ floodPc = "idle"

InitPath ==
    /\ costMap \in CostMaps
    /\ start \in CellPoints(costMap) \cup HalfPoints \cup OutsidePoints(costMap)
    /\ end \in CellPoints(costMap) \cup HalfPoints \cup OutsidePoints(costMap)
    /\ pathOptions \in [neighborMode : {4, 8},
                        directionContinuityCost : DirectionContinuityCosts,
                        cursorInfluence : CursorInfluences,
                        maxIterations : MaxIterationsOptions]
    /\ heap = <<>>
    /\ dist = <<>>
    /\ gScore = <<>>
    /\ fScore = <<>>
    /\ prev = <<>>
    /\ iterations = 0
    /\ pathPc = "dijkstra"
    /\ dijkstraResult = <<>>
    /\ astarResult = <<>>
    /\ FloodUnused
    /\ UtilUnused
    /\ LassoUnused
    /\ MaskUnused
    /\ EdgeUnused

\* dijkstra up to its loop: round the end points, seed dist and the heap.
DijkstraEnter ==
    /\ pathPc = "dijkstra"
    /\ dist' = MapSet(<<>>, StartKey, 0)
    /\ prev' = <<>>
    /\ heap' = HeapPush(<<>>, 0, [x |-> StartCell.x, y |-> StartCell.y, prevDir |-> -1])
    /\ iterations' = 0
    /\ pathPc' = "dijkstraLoop"
    /\ UNCHANGED <<costMap, start, end, pathOptions, gScore, fScore, dijkstraResult,
                   astarResult>>
    /\ UNCHANGED exceptPath

\* One iteration of dijkstra's loop: pop, return the path if the end was popped,
\* else relax the neighbours.
DijkstraStep ==
    /\ pathPc = "dijkstraLoop"
    /\ Len(heap) > 0 /\ iterations < pathOptions.maxIterations
    /\ iterations' = iterations + 1
    /\ LET current == heap[1].value
           popped == HeapPop(heap)
           currentKey == PointKey(current.x, current.y)
       IN  IF currentKey = EndKey
           THEN /\ dijkstraResult' = [path |-> WalkBack(EndKey, prev, <<>>),
                                      cost |-> GetOrZero(dist, EndKey),
                                      iterations |-> iterations + 1,
                                      success |-> TRUE]
                /\ pathPc' = "astar"
                /\ heap' = popped
                /\ UNCHANGED <<dist, prev>>
           ELSE LET st == DijkstraRelax([dist |-> dist, prev |-> prev, heap |-> popped],
                                        current,
                                        GetNeighbors(current.x, current.y,
                                                     pathOptions.neighborMode), 1)
                IN  /\ dist' = st.dist
                    /\ prev' = st.prev
                    /\ heap' = st.heap
                    /\ UNCHANGED <<pathPc, dijkstraResult>>
    /\ UNCHANGED <<costMap, start, end, pathOptions, gScore, fScore, astarResult>>
    /\ UNCHANGED exceptPath

\* dijkstra's loop ended without popping the end.
DijkstraFail ==
    /\ pathPc = "dijkstraLoop"
    /\ ~(Len(heap) > 0 /\ iterations < pathOptions.maxIterations)
    /\ dijkstraResult' = FailedSearch(iterations)
    /\ pathPc' = "astar"
    /\ UNCHANGED <<costMap, start, end, pathOptions, heap, dist, gScore, fScore, prev,
                   iterations, astarResult>>
    /\ UNCHANGED exceptPath

\* astar up to its loop.
AstarEnter ==
    /\ pathPc = "astar"
    /\ gScore' = MapSet(<<>>, StartKey, 0)
    /\ fScore' = MapSet(<<>>, StartKey,
                        Heuristic(StartCell.x, StartCell.y, EndCell.x, EndCell.y))
    /\ prev' = <<>>
    /\ heap' = HeapPush(<<>>, Heuristic(StartCell.x, StartCell.y, EndCell.x, EndCell.y),
                        [x |-> StartCell.x, y |-> StartCell.y, prevDir |-> -1])
    /\ iterations' = 0
    /\ pathPc' = "astarLoop"
    /\ UNCHANGED <<costMap, start, end, pathOptions, dist, dijkstraResult, astarResult>>
    /\ UNCHANGED exceptPath

\* One iteration of astar's loop.
AstarStep ==
    /\ pathPc = "astarLoop"
    /\ Len(heap) > 0 /\ iterations < pathOptions.maxIterations
    /\ iterations' = iterations + 1
    /\ LET current == heap[1].value
           popped == HeapPop(heap)
           currentKey == PointKey(current.x, current.y)
       IN  IF currentKey = EndKey
           THEN /\ astarResult' = [path |-> WalkBack(EndKey, prev, <<>>),
                                   cost |-> GetOrZero(gScore, EndKey),
                                   iterations |-> iterations + 1,
                                   success |-> TRUE]
                /\ pathPc' = "done"
                /\ heap' = popped
                /\ UNCHANGED <<gScore, fScore, prev>>
           ELSE LET st == AstarRelax([gScore |-> gScore, fScore |-> fScore,
                                      prev |-> prev, heap |-> popped],
                                     current,
                                     GetNeighbors(current.x, current.y,
                                                  pathOptions.neighborMode), 1)
                IN  /\ gScore' = st.gScore
                    /\ fScore' = st.fScore
                    /\ prev' = st.prev
                    /\ heap' = st.heap
                    /\ UNCHANGED <<pathPc, astarResult>>
    /\ UNCHANGED <<costMap, start, end, pathOptions, dist, dijkstraResult>>
    /\ UNCHANGED exceptPath

\* astar's loop ended without popping the end.
AstarFail ==
    /\ pathPc = "astarLoop"
    /\ ~(Len(heap) > 0 /\ iterations < pathOptions.maxIterations)
    /\ astarResult' = FailedSearch(iterations)
    /\ pathPc' = "done"
    /\ UNCHANGED <<costMap, start, end, pathOptions, heap, dist, gScore, fScore, prev,
                   iterations, dijkstraResult>>
    /\ UNCHANGED exceptPath

NextPath ==
    \/ DijkstraEnter
    \/ DijkstraStep
    \/ DijkstraFail
    \/ AstarEnter
    \/ AstarStep
    \/ AstarFail

SpecPath == InitPath /\ [][NextPath]_vars

\* ---------------------------------------------------------------- path utilities

\* Largest number of points of a path handed to a utility.
MaxPathLen == 5

\* The square of perpendicularDistance(point, lineStart, lineEnd), as the fraction
\* num / den: the distance to lineStart when the line has no length, else
\* cross * cross / (mag * mag). Distances are compared exactly.
PerpendicularDistance2(point, lineStart, lineEnd) ==
    LET dx == lineEnd.x - lineStart.x
        dy == lineEnd.y - lineStart.y
    IN  IF dx * dx + dy * dy = 0
        THEN [num |-> (point.x - lineStart.x) * (point.x - lineStart.x)
                      + (point.y - lineStart.y) * (point.y - lineStart.y),
              den |-> 1]
        ELSE LET cross == (point.x - lineStart.x) * dy - (point.y - lineStart.y) * dx
             IN  [num |-> cross * cross, den |-> dx * dx + dy * dy]

\* rdp's scan from index i on: best = [maxDist, maxIndex], maxDist the numerator
\* of the largest squared distance so far (the line, and so the denominator, is
\* the same for every i).
RECURSIVE Farthest(_, _, _, _, _)
Farthest(points, first, last, i, best) ==
    IF i >= last THEN best
    ELSE LET d == PerpendicularDistance2(points[i], points[first], points[last]).num
         IN  Farthest(points, first, last, i + 1,
                      IF d > best.maxDist THEN [maxDist |-> d, maxIndex |-> i] ELSE best)

\* maxDist > epsilon, for the squared distance num / den and epsilon in halves.
ExceedsEpsilon(num, den, epsilon) == 4 * num > epsilon * epsilon * den

\* The points rdp(points, first, last, result) pushes onto result, in order.
RECURSIVE Rdp(_, _, _, _)
Rdp(points, first, last, epsilon) ==
    LET best == Farthest(points, first, last, first + 1,
                         [maxDist |-> 0, maxIndex |-> first])
        den == PerpendicularDistance2(points[first], points[first], points[last]).den
    IN  IF ExceedsEpsilon(best.maxDist, den, epsilon)
        THEN Rdp(points, first, best.maxIndex, epsilon)
             \o <<points[best.maxIndex]>>
             \o Rdp(points, best.maxIndex, last, epsilon)
        ELSE <<>>

\* Mutant: the last point is not pushed.
SimplifyPathNoLast(path, epsilon) ==
    IF Len(path) <= 2 THEN path
    ELSE <<path[1]>> \o Rdp(path, 1, Len(path), epsilon)

\* simplifyPath(path, epsilon); path[1] is the code's path[0].
SimplifyPath(path, epsilon) ==
    IF Len(path) <= 2 THEN path
    ELSE <<path[1]>> \o Rdp(path, 1, Len(path), epsilon) \o <<path[Len(path)]>>

\* Math.sqrt(dx * dx + dy * dy) for dx and dy in fixed point.
Norm(dx, dy) == SqrtBetween(dx * dx + dy * dy, 0, 46340)

\* One pass of smoothPath over the points from index i on, appended to acc.
RECURSIVE SmoothPass(_, _, _)
SmoothPass(smoothed, i, acc) ==
    IF i > Len(smoothed) - 1 THEN acc
    ELSE SmoothPass(smoothed, i + 1,
                    Append(acc,
                           [x |-> (smoothed[i - 1].x + smoothed[i].x * 2
                                   + smoothed[i + 1].x) \div 4,
                            y |-> (smoothed[i - 1].y + smoothed[i].y * 2
                                   + smoothed[i + 1].y) \div 4]))

\* smoothPath(path, iterations), coordinates in fixed point.
RECURSIVE SmoothPath(_, _)
SmoothPath(path, n) ==
    IF Len(path) <= 2 \/ n <= 0 THEN path
    ELSE SmoothPath(Append(SmoothPass(path, 2, <<path[1]>>), path[Len(path)]), n - 1)

\* getPathLength(path), coordinates in fixed point.
RECURSIVE GetPathLength(_)
GetPathLength(path) ==
    IF Len(path) <= 1 THEN 0
    ELSE GetPathLength(SubSeq(path, 1, Len(path) - 1))
         + Norm(path[Len(path)].x - path[Len(path) - 1].x,
                path[Len(path)].y - path[Len(path) - 1].y)

\* ---- the paths and tolerances tried

UtilPoints == {[x |-> x, y |-> y] : x \in 0 .. 2, y \in 0 .. 1}

UtilPaths == UNION {[1 .. n -> UtilPoints] : n \in 0 .. MaxPathLen}

\* epsilon 0, 0.5, 1 and 2, in halves.
Epsilons == {0, 1, 2, 4}

InitPathUtil ==
    /\ utilPath \in UtilPaths
    /\ utilEpsilon \in Epsilons
    /\ utilResult = <<>>
    /\ utilPc = "call"
    /\ FloodUnused
    /\ PathIdle
    /\ LassoUnused
    /\ MaskUnused
    /\ EdgeUnused

SimplifyPathCall ==
    /\ utilPc = "call"
    /\ utilResult' = SimplifyPath(utilPath, utilEpsilon)
    /\ utilPc' = "done"
    /\ UNCHANGED <<utilPath, utilEpsilon>>
    /\ UNCHANGED exceptUtil

NextPathUtil == SimplifyPathCall

SpecPathUtil == InitPathUtil /\ [][NextPathUtil]_vars

\* ---------------------------------------------------------------- LassoEngine

\* Points handed to and kept by the engine have fixed-point coordinates; times
\* are in ms. metrics.pathComputationTime, the wall-clock duration of one search,
\* is left out: the engine never reads it.

\* null: no cost field, no current path, nothing returned.
Null == <<>>

\* A Point from pixel coordinates.
Pt(px, py) == [x |-> px * Scale, y |-> py * Scale]

\* Math.round of a fixed-point number, as an integer.
RoundFixed(v) == (v + (Scale \div 2)) \div Scale

\* The engine as one record, read from the variables.
Engine ==
    [options |-> lassoOptions, costMap |-> lassoCostMap, isActive |-> isActive,
     currentPath |-> currentPath, lazyCursor |-> lazyCursor, previewPath |-> previewPath,
     metrics |-> metrics, trajectoryHistory |-> trajectoryHistory,
     lastAnchorTime |-> lastAnchorTime, frameCount |-> frameCount,
     fpsUpdateTime |-> fpsUpdateTime, uuidCount |-> uuidCount]

\* The variables after a call that leaves the engine as e.
EngineBecomes(e) ==
    /\ lassoOptions' = e.options
    /\ lassoCostMap' = e.costMap
    /\ isActive' = e.isActive
    /\ currentPath' = e.currentPath
    /\ lazyCursor' = e.lazyCursor
    /\ previewPath' = e.previewPath
    /\ metrics' = e.metrics
    /\ trajectoryHistory' = e.trajectoryHistory
    /\ lastAnchorTime' = e.lastAnchorTime
    /\ frameCount' = e.frameCount
    /\ fpsUpdateTime' = e.fpsUpdateTime
    /\ uuidCount' = e.uuidCount

\* createInitialState, and the field initialisers of the class.
CreateInitialState(opts) ==
    [options |-> opts, costMap |-> Null, isActive |-> FALSE, currentPath |-> Null,
     lazyCursor |-> [outerPosition |-> Pt(0, 0), innerPosition |-> Pt(0, 0),
                     radius |-> opts.cursorRadius,
                     smoothingFactor |-> opts.smoothingFactor],
     previewPath |-> <<>>,
     metrics |-> [fps |-> 0, totalPathPoints |-> 0, anchorCount |-> 0,
                  edgeQuality |-> 0, cursorSpeed |-> 0],
     trajectoryHistory |-> <<>>, lastAnchorTime |-> 0, frameCount |-> 0,
     fpsUpdateTime |-> 0, uuidCount |-> 0]

\* Mutant: the inner position follows the pointer at once, without dead zone or
\* smoothing.
UpdateLazyCursorSnap(e, mousePosition) ==
    [e EXCEPT !.lazyCursor = [@ EXCEPT !.outerPosition = mousePosition,
                                       !.innerPosition = mousePosition],
              !.trajectoryHistory = Append(@, mousePosition)]

\* updateLazyCursor(mousePosition): the engine afterwards; the value returned is
\* its lazyCursor.innerPosition.
UpdateLazyCursor(e, mousePosition) ==
    LET cursor == e.lazyCursor
        dx == mousePosition.x - cursor.innerPosition.x
        dy == mousePosition.y - cursor.innerPosition.y
        \* Math.cos(angle) * moveDistance * smoothingFactor, cos(angle) = dx / distance
        Step(d, distance) ==
            (((d * (distance - cursor.radius)) \div distance) * cursor.smoothingFactor)
                \div Scale
        Moved(distance) ==
            IF distance > cursor.radius
            THEN [x |-> cursor.innerPosition.x + Step(dx, distance),
                  y |-> cursor.innerPosition.y + Step(dy, distance)]
            ELSE cursor.innerPosition
        Shifted(pushed) ==
            IF Len(pushed) > e.options.trajectoryLookback THEN Tail(pushed) ELSE pushed
        Speed(history) ==
            IF Len(history) >= 2
            THEN Norm(history[Len(history)].x - history[Len(history) - 1].x,
                      history[Len(history)].y - history[Len(history) - 1].y)
            ELSE e.metrics.cursorSpeed
    IN  With(Moved(Norm(dx, dy)), LAMBDA inner :
        With(Shifted(Append(e.trajectoryHistory, inner)), LAMBDA history :
             [e EXCEPT !.lazyCursor = [cursor EXCEPT !.outerPosition = mousePosition,
                                                     !.innerPosition = inner],
                       !.trajectoryHistory = history,
                       !.metrics = [@ EXCEPT !.cursorSpeed = Speed(history)]]))

\* The sum of 1 - cost over the cells of the set cells.
RECURSIVE TotalQuality(_, _)
TotalQuality(cm, cells) ==
    IF cells = {} THEN 0
    ELSE LET c == CHOOSE c \in cells : TRUE
         IN  (Scale - cm.costs[c]) + TotalQuality(cm, cells \ {c})

\* getEdgeQualityAt(point)
GetEdgeQualityAt(e, point) ==
    IF e.costMap = Null THEN 0
    ELSE LET x == RoundFixed(point.x)
             y == RoundFixed(point.y)
             cm == e.costMap
             window == {py * cm.width + px :
                          px \in Max(0, x - 3) .. Min(cm.width - 1, x + 3),
                          py \in Max(0, y - 3) .. Min(cm.height - 1, y + 3)}
         IN  IF x < 0 \/ x >= cm.width \/ y < 0 \/ y >= cm.height THEN 0
             ELSE IF window = {} THEN 0
             ELSE TotalQuality(cm, window) \div Cardinality(window)

\* createAnchor(point, strength); the id is the next one uuid() hands out.
CreateAnchor(e, point, strength) ==
    With(GetEdgeQualityAt(e, point), LAMBDA edgeQuality :
         [id |-> e.uuidCount + 1, point |-> point, strength |-> strength,
          timestamp |-> now, isEdgeSnapped |-> edgeQuality > Scale \div 2,
          edgeQuality |-> edgeQuality])

\* getCursorInfluenceForVariation
GetCursorInfluenceForVariation(opts) ==
    CASE opts.variation = "classic-dijkstra" -> (opts.cursorInfluence * 5) \div 10
      [] opts.variation = "photoshop-style" -> (opts.cursorInfluence * 15) \div 10
      [] opts.variation = "elastic-progressive" -> opts.cursorInfluence
      [] opts.variation = "predictive-directional" -> (opts.cursorInfluence * 8) \div 10
      [] OTHER -> opts.cursorInfluence

\* The cells of a path as Points.
RECURSIVE CellsToPoints(_)
CellsToPoints(path) ==
    IF Len(path) = 0 THEN <<>>
    ELSE <<Pt(Head(path).x, Head(path).y)>> \o CellsToPoints(Tail(path))

\* Mutant: the path of the search is used whether or not the search succeeded.
ComputePathNoFallback(e, startPoint, endPoint) ==
    IF e.costMap = Null THEN <<startPoint, endPoint>>
    ELSE LET opts == [neighborMode |-> e.options.neighborMode,
                      directionContinuityCost |-> e.options.directionContinuityCost,
                      cursorInfluence |-> GetCursorInfluenceForVariation(e.options),
                      maxIterations |-> 50000]
             startCell == [x |-> RoundFixed(startPoint.x), y |-> RoundFixed(startPoint.y)]
             endCell == [x |-> RoundFixed(endPoint.x), y |-> RoundFixed(endPoint.y)]
         IN  With(IF e.options.pathfindingAlgorithm = "astar"
                  THEN AstarSearch(startCell, endCell, e.costMap, opts)
                  ELSE DijkstraSearch(startCell, endCell, e.costMap, opts),
                  LAMBDA result : CellsToPoints(result.path))

\* computePath(start, end)
ComputePath(e, startPoint, endPoint) ==
    IF e.costMap = Null THEN <<startPoint, endPoint>>
    ELSE LET opts == [neighborMode |-> e.options.neighborMode,
                      directionContinuityCost |-> e.options.directionContinuityCost,
                      cursorInfluence |-> GetCursorInfluenceForVariation(e.options),
                      maxIterations |-> 50000]
             startCell == [x |-> RoundFixed(startPoint.x), y |-> RoundFixed(startPoint.y)]
             endCell == [x |-> RoundFixed(endPoint.x), y |-> RoundFixed(endPoint.y)]
         IN  With(IF e.options.pathfindingAlgorithm = "astar"
                  THEN AstarSearch(startCell, endCell, e.costMap, opts)
                  ELSE DijkstraSearch(startCell, endCell, e.costMap, opts),
                  LAMBDA result :
                      IF ~result.success \/ Len(result.path) = 0
                      THEN <<startPoint, endPoint>>
                      ELSE With(CellsToPoints(SimplifyPath(result.path, 2)),
                                LAMBDA path :
                                    IF e.options.variation = "elastic-progressive"
                                    THEN SmoothPath(path, 1)
                                    ELSE path))

\* Math.exp(-age / 1000), for the whole seconds the clock advances by.
RECURSIVE ExpNeg(_)
ExpNeg(age) ==
    IF age < 1000 THEN Scale ELSE (ExpNeg(age - 1000) * 3679) \div Scale

\* The strength updateElasticStrengths gives an anchor.
NewStrength(anchor, curve) ==
    LET age == now - anchor.timestamp
        t == Min(Scale, (age * Scale) \div 2000)
    IN  IF anchor.strength >= Scale THEN anchor.strength
        ELSE CASE curve = "linear" -> t
               [] curve = "exponential" -> Min(Scale, Scale - ExpNeg(age))
               [] curve = "ease-in-out" ->
                    IF 2 * t < Scale THEN (2 * t * t) \div Scale
                    ELSE Scale - (((2 * Scale - 2 * t) * (2 * Scale - 2 * t)) \div Scale) \div 2
               [] OTHER -> anchor.strength

\* updateElasticStrengths
UpdateElasticStrengths(e) ==
    IF e.currentPath = Null THEN e
    ELSE [e EXCEPT !.currentPath.anchors =
             [i \in 1 .. Len(@) |->
                 [@[i] EXCEPT !.strength =
                     NewStrength(e.currentPath.anchors[i], e.options.elasticStrengthCurve)]]]

\* Mutant: the last point of the preview is left out as well as the first.
CommitPreviewInnerOnly(points, preview) ==
    IF Len(preview) > 0 THEN points \o SubSeq(preview, 2, Len(preview) - 1) ELSE points

\* Mutant: the whole preview is committed, its first point included.
CommitPreviewWithFirst(points, preview) == points \o preview

\* points.push(...previewPath.slice(1)) when previewPath is not empty.
CommitPreview(points, preview) ==
    IF Len(preview) > 0 THEN points \o Tail(preview) ELSE points

\* Mutant: every new anchor is created at full strength.
AnchorStrengthAlwaysOne(anchorMode) == Scale

\* The strength of an anchor added by addAnchor.
AnchorStrength(anchorMode) == IF anchorMode = "elastic" THEN 0 ELSE Scale

\* addAnchor(point); point = Null when the argument is omitted.
AddAnchorOn(e, point) ==
    IF e.currentPath = Null THEN e
    ELSE LET anchorPoint == IF point # Null THEN point ELSE e.lazyCursor.innerPosition
         IN  With(CommitPreview(e.currentPath.points, e.previewPath), LAMBDA points :
             With(CreateAnchor(e, anchorPoint, AnchorStrength(e.options.anchorMode)),
                  LAMBDA anchor :
                  [e EXCEPT !.currentPath.points = points,
                            !.currentPath.anchors = Append(@, anchor),
                            !.uuidCount = @ + 1,
                            !.lastAnchorTime = now,
                            !.metrics = [@ EXCEPT
                                !.anchorCount = Len(e.currentPath.anchors) + 1,
                                !.totalPathPoints = Len(points)]]))

\* The sum of |angle2 - angle1| over the points of recent from index i on.
RECURSIVE TotalAngleDiff(_, _)
TotalAngleDiff(recent, i) ==
    IF i > Len(recent) THEN 0
    ELSE Abs(MathAtan2(recent[i].y - recent[i - 1].y, recent[i].x - recent[i - 1].x)
             - MathAtan2(recent[i - 1].y - recent[i - 2].y,
                         recent[i - 1].x - recent[i - 2].x))
         + TotalAngleDiff(recent, i + 1)

\* checkPredictiveAnchor(point), from the trajectory history.
CheckPredictiveAnchor(history) ==
    IF Len(history) < 3 THEN FALSE
    ELSE LET recent == SubSeq(history, Max(1, Len(history) - 4), Len(history))
         IN  4 * TotalAngleDiff(recent, 3) > Pi * (Len(recent) - 2)

\* Mutant: the elastic policy adds anchors by time.
ShouldAddAnchorElasticByTime(mode, byDistance, byTime, byQuality, byPrediction) ==
    CASE mode = "distance" -> byDistance
      [] mode = "time" -> byTime
      [] mode = "hybrid" -> byDistance \/ byTime
      [] mode = "edge-quality" -> byQuality
      [] mode = "elastic" -> byTime
      [] mode = "predictive" -> byPrediction
      [] OTHER -> FALSE

\* shouldAddAnchor after the switch over the anchor mode, from the condition each
\* mode tests.
ShouldAddAnchor(mode, byDistance, byTime, byQuality, byPrediction) ==
    CASE mode = "distance" -> byDistance
      [] mode = "time" -> byTime
      [] mode = "hybrid" -> byDistance \/ byTime
      [] mode = "edge-quality" -> byQuality
      [] mode = "predictive" -> byPrediction
      [] OTHER -> FALSE

\* checkAutoAnchor(point, previewPath)
CheckAutoAnchor(e, point, preview) ==
    IF e.currentPath = Null THEN e
    ELSE LET timeSinceLastAnchor == now - e.lastAnchorTime
             lastAnchor == e.currentPath.anchors[Len(e.currentPath.anchors)]
             distanceFromLastAnchor == Norm(point.x - lastAnchor.point.x,
                                            point.y - lastAnchor.point.y)
             mode == e.options.anchorMode
             shouldAddAnchor ==
                 ShouldAddAnchor(
                     mode,
                     distanceFromLastAnchor >= e.options.autoAnchorDistance,
                     timeSinceLastAnchor >= e.options.autoAnchorTimeInterval,
                     /\ 10 * GetEdgeQualityAt(e, point) > 7 * Scale
                     /\ 2 * distanceFromLastAnchor >= e.options.autoAnchorDistance,
                     CheckPredictiveAnchor(e.trajectoryHistory))
         IN  With(IF mode = "elastic" THEN UpdateElasticStrengths(e) ELSE e, LAMBDA e1 :
                  IF shouldAddAnchor /\ e1.metrics.cursorSpeed > Scale
                  THEN AddAnchorOn(e1, point)
                  ELSE e1)

\* updateFPS
UpdateFPS(e) ==
    LET elapsed == now - e.fpsUpdateTime
        count == e.frameCount + 1
    IN  IF elapsed >= 1000
        THEN [e EXCEPT !.metrics = [@ EXCEPT !.fps = (2 * count * 1000 + elapsed)
                                                      \div (2 * elapsed)],
                       !.frameCount = 0,
                       !.fpsUpdateTime = now]
        ELSE [e EXCEPT !.frameCount = count]

\* Mutant: only the inner position of the lazy cursor is reset.
ResetLazyCursorInnerOnly(cursor, startPoint) ==
    [cursor EXCEPT !.innerPosition = startPoint]

\* Both positions of the lazy cursor put on the start point.
ResetLazyCursor(cursor, startPoint) ==
    [cursor EXCEPT !.innerPosition = startPoint, !.outerPosition = startPoint]

\* startLasso(startPoint)
StartLassoOn(e, startPoint) ==
    [e EXCEPT !.isActive = TRUE,
              !.currentPath = [points |-> <<startPoint>>,
                               anchors |-> <<CreateAnchor(e, startPoint, Scale)>>,
                               isClosed |-> FALSE,
                               totalLength |-> 0],
              !.uuidCount = @ + 1,
              !.lazyCursor = ResetLazyCursor(@, startPoint),
              !.trajectoryHistory = <<startPoint>>,
              !.lastAnchorTime = now]

\* updateLasso(currentPoint)
UpdateLassoOn(e, currentPoint) ==
    IF ~e.isActive \/ e.currentPath = Null THEN e
    ELSE With(UpdateLazyCursor(e, currentPoint), LAMBDA e1 :
         LET stabilizedPoint == e1.lazyCursor.innerPosition
             lastAnchor == e1.currentPath.anchors[Len(e1.currentPath.anchors)]
         IN  With(ComputePath(e1, lastAnchor.point, stabilizedPoint), LAMBDA preview :
             With(CheckAutoAnchor([e1 EXCEPT !.previewPath = preview],
                                  stabilizedPoint, preview), LAMBDA e3 :
             With([e3 EXCEPT !.metrics =
                      [@ EXCEPT !.edgeQuality = GetEdgeQualityAt(e3, stabilizedPoint)]],
                  UpdateFPS))))

\* Mutant: a path of three points is not closed yet.
ShouldCloseAboveThree(autoClose, points) == autoClose /\ Len(points) > 3

\* autoClose && points.length > 2
ShouldClose(autoClose, points) == autoClose /\ Len(points) > 2

\* Mutant: the engine keeps its session.
EndSessionKeepsPath(e) == [e EXCEPT !.isActive = FALSE, !.previewPath = <<>>]

\* Mutant: the preview of the finished session is kept.
EndSessionKeepsPreview(e) == [e EXCEPT !.isActive = FALSE, !.currentPath = Null]

\* The end of completeLasso: the engine back to Idle.
EndSession(e) ==
    [e EXCEPT !.isActive = FALSE, !.currentPath = Null, !.previewPath = <<>>]

\* completeLasso(autoClose): [engine, returned].
CompleteLassoOn(e, autoClose) ==
    IF ~e.isActive \/ e.currentPath = Null THEN [engine |-> e, returned |-> Null]
    ELSE With(CommitPreview(e.currentPath.points, e.previewPath), LAMBDA committed :
         LET closes == ShouldClose(autoClose, committed)
             Closed(closingPath) == CommitPreview(committed, closingPath)
         IN  With(IF closes
                  THEN Closed(ComputePath(e, committed[Len(committed)], committed[1]))
                  ELSE committed,
                  LAMBDA points :
                  [engine |-> EndSession(e),
                   returned |-> [e.currentPath EXCEPT
                                    !.points = points,
                                    !.isClosed = IF closes THEN TRUE ELSE @,
                                    !.totalLength = GetPathLength(points)]]))

\* Mutant: cancelLasso leaves the path of the session in the state.
CancelLassoKeepsPath(e) ==
    [e EXCEPT !.isActive = FALSE, !.previewPath = <<>>, !.trajectoryHistory = <<>>]

\* cancelLasso()
CancelLassoOn(e) ==
    [e EXCEPT !.isActive = FALSE, !.currentPath = Null, !.previewPath = <<>>,
              !.trajectoryHistory = <<>>]

\* ---- the options, pointer positions and cost fields tried

\* setOptions(options): the options given replace those of the same name.
SetOptionsOn(e, given) ==
    With([k \in DOMAIN e.options |->
              IF k \in DOMAIN given THEN given[k] ELSE e.options[k]], LAMBDA merged :
         [e EXCEPT !.options = merged,
                   !.lazyCursor = [@ EXCEPT !.radius = merged.cursorRadius,
                                            !.smoothingFactor = merged.smoothingFactor]])

\* The anchor mode and the cursor influence that go with a variation.
VariationDefaults(variation) ==
    CASE variation = "classic-dijkstra" -> [anchorMode |-> "manual", cursorInfluence |-> 10]
      [] variation = "photoshop-style" -> [anchorMode |-> "hybrid", cursorInfluence |-> 40]
      [] variation = "elastic-progressive" ->
             [anchorMode |-> "elastic", cursorInfluence |-> 25]
      [] variation = "predictive-directional" ->
             [anchorMode |-> "predictive", cursorInfluence |-> 30]

\* setVariation(variation)
SetVariationOn(e, variation) ==
    [e EXCEPT !.options = [@ EXCEPT !.variation = variation,
                                    !.anchorMode = VariationDefaults(variation).anchorMode,
                                    !.cursorInfluence =
                                        VariationDefaults(variation).cursorInfluence]]

\* Calls made to one engine.
MaxCalls == 4
\* Calls of setOptions and setVariation among them.
MaxOptionChanges == 1
\* Seconds the clock advances during the calls.
MaxTicks == 1

DEFAULT_LASSO_OPTIONS ==
    [variation |-> "classic-dijkstra", cursorRadius |-> 15 * Scale,
     smoothingFactor |-> Scale \div 2, trajectoryLookback |-> 5,
     anchorMode |-> "manual", autoAnchorDistance |-> 50 * Scale,
     autoAnchorTimeInterval |-> 500, elasticStrengthCurve |-> "linear",
     pathfindingAlgorithm |-> "dijkstra", neighborMode |-> 8,
     directionContinuityCost |-> Scale \div 2, cursorInfluence |-> 20]

\* The defaults with a dead zone and an anchor distance of the size of the
\* fields tried: no dead zone and no smoothing, or a dead zone of one pixel.
Direct == [DEFAULT_LASSO_OPTIONS EXCEPT !.cursorRadius = 0, !.smoothingFactor = Scale,
                                        !.autoAnchorDistance = 2 * Scale]
Lazy == [Direct EXCEPT !.cursorRadius = Scale, !.smoothingFactor = Scale \div 2]

LassoOptionsTried ==
    {Direct, Lazy,
     [Direct EXCEPT !.anchorMode = "elastic", !.variation = "elastic-progressive"],
     [Direct EXCEPT !.anchorMode = "distance", !.pathfindingAlgorithm = "astar"],
     [Direct EXCEPT !.anchorMode = "time"]}

\* Pointer positions: two pixels of the field, on either side of the wall, and one
\* right of the field.
LassoPoints == {Pt(0, 0), Pt(2, 0), Pt(3, 2)}

\* The cost field of an image whose edge detection leaves a costly wall in the
\* middle column of the two upper rows.
LassoCostMaps == {Field(3, 3, 0, {1, 4}, Scale)}

InitLasso ==
    /\ lassoOptions \in LassoOptionsTried
    /\ lassoCostMap = CreateInitialState(lassoOptions).costMap
    /\ isActive = CreateInitialState(lassoOptions).isActive
    /\ currentPath = CreateInitialState(lassoOptions).currentPath
    /\ lazyCursor = CreateInitialState(lassoOptions).lazyCursor
    /\ previewPath = CreateInitialState(lassoOptions).previewPath
    /\ metrics = CreateInitialState(lassoOptions).metrics
    /\ trajectoryHistory = CreateInitialState(lassoOptions).trajectoryHistory
    /\ lastAnchorTime = CreateInitialState(lassoOptions).lastAnchorTime
    /\ frameCount = CreateInitialState(lassoOptions).frameCount
    /\ fpsUpdateTime = CreateInitialState(lassoOptions).fpsUpdateTime
    /\ uuidCount = CreateInitialState(lassoOptions).uuidCount
    /\ now = 0
    /\ calls = 0
    /\ optionChanges = 0
    /\ lastCall = Null
    /\ FloodUnused
    /\ PathIdle
    /\ UtilUnused
    /\ MaskUnused
    /\ EdgeUnused

\* computeEdgeMap(imageData): the cost field of the image is drawn directly.
ComputeEdgeMap ==
    /\ calls < MaxCalls
    /\ \E cm \in LassoCostMaps :
          /\ EngineBecomes([Engine EXCEPT !.costMap = cm])
          /\ lastCall' = [op |-> "computeEdgeMap", arg |-> Null, returned |-> Null]
    /\ calls' = calls + 1
    /\ UNCHANGED <<now, optionChanges>>
    /\ UNCHANGED exceptLasso

StartLasso ==
    /\ calls < MaxCalls
    /\ \E p \in LassoPoints :
          /\ \E after \in {StartLassoOn(Engine, p)} : EngineBecomes(after)
          /\ lastCall' = [op |-> "startLasso", arg |-> p, returned |-> Null]
    /\ calls' = calls + 1
    /\ UNCHANGED <<now, optionChanges>>
    /\ UNCHANGED exceptLasso

UpdateLasso ==
    /\ calls < MaxCalls
    /\ \E p \in LassoPoints :
          /\ \E after \in {UpdateLassoOn(Engine, p)} : EngineBecomes(after)
          /\ lastCall' = [op |-> "updateLasso", arg |-> p, returned |-> Null]
    /\ calls' = calls + 1
    /\ UNCHANGED <<now, optionChanges>>
    /\ UNCHANGED exceptLasso

\* addAnchor(point), and addAnchor() as arg = Null.
AddAnchor ==
    /\ calls < MaxCalls
    /\ \E p \in LassoPoints \cup {Null} :
          /\ \E after \in {AddAnchorOn(Engine, p)} : EngineBecomes(after)
          /\ lastCall' = [op |-> "addAnchor", arg |-> p, returned |-> Null]
    /\ calls' = calls + 1
    /\ UNCHANGED <<now, optionChanges>>
    /\ UNCHANGED exceptLasso

CompleteLasso ==
    /\ calls < MaxCalls
    /\ \E autoClose \in BOOLEAN :
          \E r \in {CompleteLassoOn(Engine, autoClose)} :
              /\ EngineBecomes(r.engine)
              /\ lastCall' = [op |-> "completeLasso", arg |-> autoClose,
                              returned |-> r.returned]
    /\ calls' = calls + 1
    /\ UNCHANGED <<now, optionChanges>>
    /\ UNCHANGED exceptLasso

CancelLasso ==
    /\ calls < MaxCalls
    /\ EngineBecomes(CancelLassoOn(Engine))
    /\ lastCall' = [op |-> "cancelLasso", arg |-> Null, returned |-> Null]
    /\ calls' = calls + 1
    /\ UNCHANGED <<now, optionChanges>>
    /\ UNCHANGED exceptLasso

\* A second passes during a session.
Tick ==
    /\ isActive
    /\ now < 1000 * MaxTicks
    /\ now' = now + 1000
    /\ UNCHANGED <<lassoOptions, lassoCostMap, isActive, currentPath, lazyCursor,
                   previewPath, metrics, trajectoryHistory, lastAnchorTime, frameCount,
                   fpsUpdateTime, uuidCount, calls, optionChanges, lastCall>>
    /\ UNCHANGED exceptLasso

NextLasso ==
    \/ ComputeEdgeMap
    \/ StartLasso
    \/ UpdateLasso
    \/ AddAnchor
    \/ CompleteLasso
    \/ CancelLasso
    \/ Tick

SpecLasso == InitLasso /\ [][NextLasso]_vars

\* ------------------------------------------------- lasso sessions with changing options

\* The options a new engine is given: anchors by time, or elastic anchors on the
\* exponential curve; the defaults' buffer of five trajectory points.
LassoOptionsConfigured ==
    {[Direct EXCEPT !.anchorMode = "time"],
     [Direct EXCEPT !.anchorMode = "elastic", !.variation = "elastic-progressive",
                    !.elasticStrengthCurve = "exponential"]}

\* The options handed to setOptions: a trajectory buffer of one point, another
\* strength curve, and anchors by edge quality.
LassoOptionsSet ==
    {[trajectoryLookback |-> 1],
     [elasticStrengthCurve |-> "linear"],
     [anchorMode |-> "edge-quality", autoAnchorDistance |-> Scale]}

LassoVariations ==
    {"classic-dijkstra", "photoshop-style", "elastic-progressive", "predictive-directional"}

InitLassoOptions ==
    /\ lassoOptions \in LassoOptionsConfigured
    /\ lassoCostMap = CreateInitialState(lassoOptions).costMap
    /\ isActive = CreateInitialState(lassoOptions).isActive
    /\ currentPath = CreateInitialState(lassoOptions).currentPath
    /\ lazyCursor = CreateInitialState(lassoOptions).lazyCursor
    /\ previewPath = CreateInitialState(lassoOptions).previewPath
    /\ metrics = CreateInitialState(lassoOptions).metrics
    /\ trajectoryHistory = CreateInitialState(lassoOptions).trajectoryHistory
    /\ lastAnchorTime = CreateInitialState(lassoOptions).lastAnchorTime
    /\ frameCount = CreateInitialState(lassoOptions).frameCount
    /\ fpsUpdateTime = CreateInitialState(lassoOptions).fpsUpdateTime
    /\ uuidCount = CreateInitialState(lassoOptions).uuidCount
    /\ now = 0
    /\ calls = 0
    /\ optionChanges = 0
    /\ lastCall = Null
    /\ FloodUnused
    /\ PathIdle
    /\ UtilUnused
    /\ MaskUnused
    /\ EdgeUnused

SetOptions ==
    /\ optionChanges < MaxOptionChanges
    /\ \E o \in LassoOptionsSet :
          /\ \E after \in {SetOptionsOn(Engine, o)} : EngineBecomes(after)
          /\ lastCall' = [op |-> "setOptions", arg |-> o, returned |-> Null]
    /\ optionChanges' = optionChanges + 1
    /\ UNCHANGED <<now, calls>>
    /\ UNCHANGED exceptLasso

SetVariation ==
    /\ optionChanges < MaxOptionChanges
    /\ \E v \in LassoVariations :
          /\ \E after \in {SetVariationOn(Engine, v)} : EngineBecomes(after)
          /\ lastCall' = [op |-> "setVariation", arg |-> v, returned |-> Null]
    /\ optionChanges' = optionChanges + 1
    /\ UNCHANGED <<now, calls>>
    /\ UNCHANGED exceptLasso

NextLassoOptions ==
    \/ NextLasso
    \/ SetOptions
    \/ SetVariation

SpecLassoOptions == InitLassoOptions /\ [][NextLassoOptions]_vars

\* ---------------------------------------------------------------- floodFill: claims

FloodDone == floodPc = "done"

SeedInside ==
    /\ startX \in 0 .. (imageData.width - 1)
    /\ startY \in 0 .. (imageData.height - 1)

PixelCountOfImage == imageData.width * imageData.height
AllPixels == 0 .. (PixelCountOfImage - 1)
SeedIndex == startY * imageData.width + startX

\* The pixels the result selects.
Selected == {i \in DOMAIN floodResult.mask : floodResult.mask[i] = 255}

\* The pixels whose colour distance to the seed pixel's colour is within the threshold.
Accepted ==
    {i \in AllPixels :
        WithinTolerance(ColorDifference2(imageData.data[i], imageData.data[SeedIndex]),
                        options.tolerance)}

Col(i) == i % imageData.width
Row(i) == i \div imageData.width

\* i and j are one step up, down, left or right of each other.
Orthogonal(i, j) ==
    \/ Row(i) = Row(j) /\ (Col(i) - Col(j) = 1 \/ Col(j) - Col(i) = 1)
    \/ Col(i) = Col(j) /\ (Row(i) - Row(j) = 1 \/ Row(j) - Row(i) = 1)

\* i and j touch at a corner only.
Diagonal(i, j) ==
    /\ Row(i) - Row(j) \in {-1, 1}
    /\ Col(i) - Col(j) \in {-1, 1}

\* The accepted pixels a chain of orthogonal steps through accepted pixels joins to S.
RECURSIVE Grow(_, _)
Grow(S, A) ==
    LET T == S \cup {j \in A : \E i \in S : Orthogonal(i, j)}
    IN  IF T = S THEN S ELSE Grow(T, A)

Reachable == IF SeedIndex \in Accepted THEN Grow({SeedIndex}, Accepted) ELSE {}

\* The pixels that qualify in the mode of the call.
Qualifying == IF options.contiguous THEN Reachable ELSE Accepted

IsUniform == \A i \in AllPixels : imageData.data[i] = imageData.data[0]

ZeroRectangle == [x |-> 0, y |-> 0, width |-> 0, height |-> 0]

\* C1: contiguous floodFill with no maxPixels on a uniform W x H buffer, for every
\* seed inside and every tolerance >= 0, selects every pixel: all mask entries are
\* 255, pixelCount = W * H, bounds = {0, 0, W, H} and hitLimit = false.
C1_UniformSelectsAll ==
    (FloodDone /\ SeedInside /\ options.contiguous /\ options.maxPixels = Undefined
        /\ IsUniform)
    => /\ \A i \in AllPixels : floodResult.mask[i] = 255
       /\ floodResult.pixelCount = PixelCountOfImage
       /\ floodResult.bounds = [x |-> 0, y |-> 0, width |-> imageData.width,
                                height |-> imageData.height]
       /\ floodResult.hitLimit = FALSE

\* The 4 x 4 all-red buffer, seed (0,0), tolerance 10.
C1_Witness ==
    /\ FloodDone /\ options.contiguous /\ options.maxPixels = Undefined
    /\ imageData = UniformImage(4, 4, Red)
    /\ startX = 0 /\ startY = 0
    /\ options.tolerance = 10
    /\ \A i \in 0 .. 15 : floodResult.mask[i] = 255
    /\ floodResult.bounds = [x |-> 0, y |-> 0, width |-> 4, height |-> 4]

\* C2: a seed outside the buffer, in either mode and with any options, gives the
\* empty result: all-zero mask, no pixels, pixelCount = 0, hitLimit = false and
\* the zero rectangle as bounds.
C2_OutsideSeedIsEmpty ==
    (FloodDone /\ ~SeedInside)
    => /\ \A i \in AllPixels : floodResult.mask[i] = 0
       /\ DOMAIN floodResult.mask = AllPixels
       /\ floodResult.pixels = <<>>
       /\ floodResult.pixelCount = 0
       /\ floodResult.hitLimit = FALSE
       /\ floodResult.bounds = ZeroRectangle

C2_Witness ==
    /\ FloodDone
    /\ startX = 0 /\ startY = imageData.height
    /\ ~options.contiguous /\ options.maxPixels = 1
    /\ floodResult.pixelCount = 0

\* C3: with maxPixels = k >= 1 and more than k qualifying pixels, in contiguous and
\* in global mode, the result has pixelCount = k, k entries in pixels, k mask
\* entries equal to 255, and hitLimit = true.
C3_CapIsExact ==
    (FloodDone /\ SeedInside /\ options.maxPixels >= 1
        /\ Cardinality(Qualifying) > options.maxPixels)
    => /\ floodResult.pixelCount = options.maxPixels
       /\ Len(floodResult.pixels) = options.maxPixels
       /\ Cardinality(Selected) = options.maxPixels
       /\ floodResult.hitLimit = TRUE

C3_Witness ==
    /\ FloodDone /\ SeedInside /\ options.contiguous
    /\ options.maxPixels = MaxCap
    /\ Cardinality(Reachable) > MaxCap + 1
    /\ Cardinality(Accepted) > Cardinality(Reachable)
    /\ floodResult.pixelCount = MaxCap

\* C4: contiguous floodFill with no maxPixels selects exactly the pixels joined to
\* the seed by a chain of up/down/left/right steps through accepted pixels.
C4_SelectsFourConnectedRegion ==
    (FloodDone /\ SeedInside /\ options.contiguous /\ options.maxPixels = Undefined)
    => Selected = Reachable

\* An accepted pixel touching the selection at a corner only stays unselected, and
\* so does one behind a rejected pixel.
C4_Witness ==
    /\ FloodDone /\ SeedInside /\ options.contiguous /\ options.maxPixels = Undefined
    /\ \E i \in Accepted \ Selected : \E j \in Selected : Diagonal(i, j)
    /\ Cardinality(Selected) >= 2

\* The 3 x 3 buffer with a white centre and a black border, seed (0,0), tolerance 5,
\* contiguous, no maxPixels.
C5_Scenario ==
    /\ FloodDone
    /\ imageData = Painted(3, 3, {4}, White)
    /\ startX = 0 /\ startY = 0
    /\ options = [tolerance |-> 5, contiguous |-> TRUE, maxPixels |-> Undefined]

\* C5 as stated: the scenario selects exactly 4 pixels, all black border pixels,
\* and never the white centre.
C5_Original ==
    C5_Scenario
    => /\ floodResult.pixelCount = 4
       /\ \A i \in Selected : imageData.data[i] = Black
       /\ 4 \notin Selected

\* C5, amended: the scenario selects exactly the 8 black border pixels, which a
\* chain of orthogonal steps along the border joins to the corner, and never the
\* white centre.
C5_RingSelectsEight ==
    C5_Scenario
    => /\ floodResult.pixelCount = 8
       /\ Selected = (0 .. 8) \ {4}
       /\ floodResult.mask[4] = 0

C5_Witness ==
    /\ C5_Scenario
    /\ floodResult.pixelCount = 8

\* The tight bounding rectangle of a non-empty set of pixels.
TightBox(S) ==
    LET x0 == CHOOSE x \in {Col(i) : i \in S} : \A i \in S : x <= Col(i)
        x1 == CHOOSE x \in {Col(i) : i \in S} : \A i \in S : x >= Col(i)
        y0 == CHOOSE y \in {Row(i) : i \in S} : \A i \in S : y <= Row(i)
        y1 == CHOOSE y \in {Row(i) : i \in S} : \A i \in S : y >= Row(i)
    IN  [x |-> x0, y |-> y0, width |-> x1 - x0 + 1, height |-> y1 - y0 + 1]

\* C6: bounds is the tight bounding rectangle of the selected pixels (either mode,
\* truncated or not), and the zero rectangle when no pixel is selected.
C6_BoundsAreTight ==
    FloodDone
    => floodResult.bounds = IF Selected = {} THEN ZeroRectangle
                            ELSE TightBox(Selected)

C6_Witness ==
    /\ FloodDone
    /\ floodResult.hitLimit
    /\ floodResult.bounds.x >= 1 /\ floodResult.bounds.y >= 1
    /\ floodResult.bounds.width >= 2
    /\ floodResult.bounds.x + floodResult.bounds.width < imageData.width + 1

\* C7 as stated: hitLimit = true only when a pixel that qualifies is missing from
\* the result.
C7_HitLimitOnlyWhenCapped ==
    (FloodDone /\ SeedInside /\ floodResult.hitLimit)
    => Qualifying \ Selected # {}

\* ---------------------------------------------------------------- Pathfinding: claims

PathDone == pathPc = "done"

StartInside ==
    /\ StartCell.x \in 0 .. (costMap.width - 1)
    /\ StartCell.y \in 0 .. (costMap.height - 1)

EndInside ==
    /\ EndCell.x \in 0 .. (costMap.width - 1)
    /\ EndCell.y \in 0 .. (costMap.height - 1)

Cells == 0 .. (costMap.width * costMap.height - 1)
CellX(c) == c % costMap.width
CellY(c) == c \div costMap.width
StartCellIndex == StartCell.y * costMap.width + StartCell.x
EndCellIndex == EndCell.y * costMap.width + EndCell.x

\* The weight of the move from cell u into cell v when neighborMode allows it:
\* moveCost * (cost(v) + 0.01) with moveCost 1 for a straight and sqrt(2) for a
\* diagonal move; Infinity when v is no neighbour of u.
MoveWeight(u, v) ==
    LET ax == Abs(CellX(u) - CellX(v))
        ay == Abs(CellY(u) - CellY(v))
    IN  IF ax + ay = 1
        THEN (Scale * (costMap.costs[v] + (Scale \div 100))) \div Scale
        ELSE IF ax = 1 /\ ay = 1 /\ pathOptions.neighborMode = 8
        THEN (MathSqrt(2) * (costMap.costs[v] + (Scale \div 100))) \div Scale
        ELSE Infinity

\* The least of a non-empty set of numbers.
Least(S) == CHOOSE m \in S : \A n \in S : m <= n

\* The least weight of reaching v: as known, or through a neighbour u.
Best(d, v) ==
    Least({d[v]} \cup {d[u] + MoveWeight(u, v) :
                         u \in {c \in Cells : d[c] < Infinity /\ MoveWeight(c, v) < Infinity}})

\* One Bellman-Ford round: every cell from v on relaxed in turn.
RECURSIVE RelaxFrom(_, _)
RelaxFrom(d, v) ==
    IF v \notin Cells THEN d
    ELSE RelaxFrom([d EXCEPT ![v] = Best(d, v)], v + 1)

\* After n rounds d[v] is at most the least weight of a path of n moves to v.
RECURSIVE Rounds(_, _)
Rounds(d, n) == IF n = 0 THEN d ELSE Rounds(RelaxFrom(d, 0), n - 1)

\* The least total weight of a grid path from the start cell to the end cell.
MinPathCost ==
    Rounds([v \in Cells |-> IF v = StartCellIndex THEN 0 ELSE Infinity],
           Cardinality(Cells))[EndCellIndex]

IsFlat == \A c \in Cells : costMap.costs[c] = costMap.costs[0]

\* C8: dijkstra with cursorInfluence = 0 and directionContinuityCost = 0, start and
\* end inside the field and maxIterations not hit, succeeds with the least total
\* weight over all grid paths from start to end.
C8_DijkstraIsLeastCost ==
    (PathDone /\ StartInside /\ EndInside /\ pathOptions.cursorInfluence = 0
        /\ pathOptions.directionContinuityCost = 0
        /\ dijkstraResult.iterations < pathOptions.maxIterations)
    => /\ dijkstraResult.success
       /\ dijkstraResult.cost = MinPathCost

\* The cheapest path is a detour around a costly cell.
C8_Witness ==
    /\ PathDone /\ StartInside /\ EndInside /\ pathOptions.cursorInfluence = 0
    /\ pathOptions.directionContinuityCost = 0
    /\ pathOptions.neighborMode = 4
    /\ ~IsFlat
    /\ dijkstraResult.success
    /\ Len(dijkstraResult.path) >= 5
    /\ StartCell.y = EndCell.y /\ Abs(StartCell.x - EndCell.x) = 2
    /\ dijkstraResult.cost = MinPathCost

\* C9 as stated: astar with cursorInfluence = 0 and directionContinuityCost = 0
\* succeeds with the least total weight over all grid paths from start to end,
\* on every cost field.
C9_AstarIsLeastCost ==
    (PathDone /\ StartInside /\ EndInside /\ pathOptions.cursorInfluence = 0
        /\ pathOptions.directionContinuityCost = 0
        /\ astarResult.iterations < pathOptions.maxIterations)
    => /\ astarResult.success
       /\ astarResult.cost = MinPathCost

\* C10: on a flat cost field with cursorInfluence = 0, any directionContinuityCost
\* and maxIterations not hit, dijkstra and astar both succeed with the same cost.
C10_FlatFieldSameCost ==
    (PathDone /\ StartInside /\ EndInside /\ IsFlat /\ pathOptions.cursorInfluence = 0
        /\ dijkstraResult.iterations < pathOptions.maxIterations
        /\ astarResult.iterations < pathOptions.maxIterations)
    => /\ dijkstraResult.success
       /\ astarResult.success
       /\ dijkstraResult.cost = astarResult.cost

\* The two results, once both searches have returned.
SearchResults == {dijkstraResult, astarResult}

\* The cells a chain of neighbour moves joins to the start cell: the start cell
\* itself, and cells inside the field entered from a cell of the chain.
RECURSIVE Joined(_)
Joined(S) ==
    LET T == S \cup {c \in (0 .. (costMap.width - 1)) \X (0 .. (costMap.height - 1)) :
                        \E u \in S :
                            LET ax == Abs(u[1] - c[1])
                                ay == Abs(u[2] - c[2])
                            IN  \/ ax + ay = 1
                                \/ ax = 1 /\ ay = 1 /\ pathOptions.neighborMode = 8}
    IN  IF T = S THEN S ELSE Joined(T)

EndReachable == <<EndCell.x, EndCell.y>> \in Joined({<<StartCell.x, StartCell.y>>})

IsFailure(r) == ~r.success /\ r.path = <<>> /\ r.cost = Infinity

\* The entry the next pop returns is the end cell.
TargetOnTop ==
    /\ Len(heap) > 0
    /\ heap[1].value.x = EndCell.x
    /\ heap[1].value.y = EndCell.y

\* C11 as stated: both searches return after at most maxIterations pops; each
\* result is either a success or a failure with an empty path and infinite cost;
\* an end cell outside the field or not reachable gives a failure; a success is
\* returned only by an iteration that pops the end cell.
C11_SearchAlwaysReturns ==
    /\ [](PathDone =>
            \A r \in SearchResults :
                /\ r.iterations <= pathOptions.maxIterations
                /\ r.success \/ IsFailure(r)
                /\ (~EndInside \/ ~EndReachable) => IsFailure(r))
    /\ [][/\ (dijkstraResult = <<>> /\ dijkstraResult' # <<>> /\ dijkstraResult'.success)
              => (TargetOnTop /\ iterations < pathOptions.maxIterations)
          /\ (astarResult = <<>> /\ astarResult' # <<>> /\ astarResult'.success)
              => (TargetOnTop /\ iterations < pathOptions.maxIterations)]_vars

\* p is a cell of the field.
InField(p) ==
    /\ p.x \in 0 .. (costMap.width - 1)
    /\ p.y \in 0 .. (costMap.height - 1)

\* From p to q is one move of neighborMode.
OneMove(p, q) ==
    LET ax == Abs(p.x - q.x)
        ay == Abs(p.y - q.y)
    IN  \/ ax + ay = 1
        \/ ax = 1 /\ ay = 1 /\ pathOptions.neighborMode = 8

\* C12 as stated: a successful search returns a non-empty path from the rounded
\* start to the rounded end, all of whose points are cells of the field and
\* whose consecutive points are one neighbour move apart.
C12_PathIsGridWalk ==
    PathDone =>
        \A r \in SearchResults :
            r.success =>
                /\ Len(r.path) >= 1
                /\ r.path[1] = StartCell
                /\ r.path[Len(r.path)] = EndCell
                /\ \A i \in 1 .. Len(r.path) : InField(r.path[i])
                /\ \A i \in 1 .. (Len(r.path) - 1) : OneMove(r.path[i], r.path[i + 1])

\* ---------------------------------------------------------------- path utilities: claims

\* sub can be had from seq by deleting elements.
RECURSIVE IsSubsequence(_, _)
IsSubsequence(sub, seq) ==
    IF Len(sub) = 0 THEN TRUE
    ELSE IF Len(seq) = 0 THEN FALSE
    ELSE IF Head(sub) = Head(seq) THEN IsSubsequence(Tail(sub), Tail(seq))
    ELSE IsSubsequence(sub, Tail(seq))

\* C13: simplifyPath of a non-empty path, for every epsilon >= 0, returns a list
\* that starts with path[0], ends with the last point of path, has no more points
\* than path, and is a subsequence of path in the original order.
C13_SimplifyKeepsEndsAndOrder ==
    (utilPc = "done" /\ Len(utilPath) >= 1)
    => /\ Len(utilResult) >= 1
       /\ utilResult[1] = utilPath[1]
       /\ utilResult[Len(utilResult)] = utilPath[Len(utilPath)]
       /\ Len(utilResult) <= Len(utilPath)
       /\ IsSubsequence(utilResult, utilPath)

\* Some inner points are dropped and some are kept, on both sides of a split.
C13_Witness ==
    /\ utilPc = "done"
    /\ Len(utilPath) = 5
    /\ Len(utilResult) = 4
    /\ utilEpsilon = 2
    /\ utilResult[2] = utilPath[2]
    /\ utilResult[3] = utilPath[4]

\* ---------------------------------------------------------------- LassoEngine: claims

\* This step is a call of the operation op.
Called(op) == calls' = calls + 1 /\ lastCall'.op = op

\* C14: on an Idle engine updateLasso, addAnchor and completeLasso change neither
\* isActive nor currentPath (which stays none, so no path and no anchor exists) nor
\* previewPath, and completeLasso returns null.
C14_IdleCallsAreNoOps ==
    [][(/\ ~isActive
        /\ Called("updateLasso") \/ Called("addAnchor") \/ Called("completeLasso"))
       => /\ UNCHANGED <<isActive, currentPath, previewPath>>
          /\ currentPath' = Null
          /\ Called("completeLasso") => lastCall'.returned = Null]_vars

\* An addAnchor was called on an engine that is Idle after an earlier session.
C14_Witness ==
    /\ calls > 0
    /\ lastCall.op = "addAnchor"
    /\ ~isActive
    /\ uuidCount > 0

\* C15: startLasso(p2) on an Active engine either changes nothing of the session,
\* or leaves what cancelLasso() and then startLasso(p2) leave: points = [p2], one
\* anchor at p2, and an empty previewPath.
C15_RestartIsRejectedOrClean ==
    [][(isActive /\ Called("startLasso"))
       => \/ UNCHANGED <<isActive, currentPath, previewPath, lazyCursor,
                         trajectoryHistory>>
          \/ /\ isActive'
             /\ currentPath'.points = <<lastCall'.arg>>
             /\ Len(currentPath'.anchors) = 1
             /\ currentPath'.anchors[1].point = lastCall'.arg
             /\ previewPath' = <<>>
             /\ trajectoryHistory' = <<lastCall'.arg>>]_vars

\* C16: startLasso(point) on an Idle engine makes it Active with a path of
\* points = [point], exactly one anchor, at point and of strength 1.0 whatever the
\* anchor mode, isClosed = false and totalLength = 0, and puts the inner and the
\* outer position of the lazy cursor on point.
C16_StartFromIdle ==
    [][(~isActive /\ Called("startLasso"))
       => /\ isActive'
          /\ currentPath' # Null
          /\ currentPath'.points = <<lastCall'.arg>>
          /\ Len(currentPath'.anchors) = 1
          /\ currentPath'.anchors[1].point = lastCall'.arg
          /\ currentPath'.anchors[1].strength = Scale
          /\ currentPath'.isClosed = FALSE
          /\ currentPath'.totalLength = 0
          /\ lazyCursor'.innerPosition = lastCall'.arg
          /\ lazyCursor'.outerPosition = lastCall'.arg]_vars

\* A second session was started, away from where the pointer was, on an engine
\* whose anchor mode is elastic.
C16_Witness ==
    /\ calls > 0
    /\ lastCall.op = "startLasso"
    /\ lastCall.arg = Pt(3, 2)
    /\ lassoOptions.anchorMode = "elastic"
    /\ uuidCount = 2
    /\ Len(currentPath.anchors) = 1
    /\ currentPath.anchors[1].id = 2
    /\ currentPath.anchors[1].strength = Scale
    /\ previewPath = <<>>

\* C17: addAnchor(point?) on an Active engine appends to the path the previewPath
\* without its first point (nothing when the previewPath is empty) and then one
\* anchor, at point, or at the inner position of the lazy cursor when point is
\* omitted; the points and anchors there were keep their places and values; the
\* new anchor has strength 0.0 when the anchor mode is elastic and 1.0 otherwise.
C17_AddAnchorCommitsPreview ==
    [][(isActive /\ Called("addAnchor"))
       => LET n == Len(currentPath.anchors)
              added == currentPath'.anchors[n + 1]
          IN  /\ currentPath'.points =
                     currentPath.points
                         \o (IF Len(previewPath) > 0
                             THEN SubSeq(previewPath, 2, Len(previewPath))
                             ELSE <<>>)
              /\ Len(currentPath'.anchors) = n + 1
              /\ SubSeq(currentPath'.anchors, 1, n) = currentPath.anchors
              /\ added.point = (IF lastCall'.arg # Null THEN lastCall'.arg
                                ELSE lazyCursor.innerPosition)
              /\ added.strength = (IF lassoOptions.anchorMode = "elastic" THEN 0
                                   ELSE Scale)]_vars

\* addAnchor() without a point committed a searched preview of three points on an
\* engine whose anchor mode is elastic.
C17_Witness ==
    /\ calls > 0
    /\ lastCall.op = "addAnchor"
    /\ lastCall.arg = Null
    /\ isActive
    /\ lassoOptions.anchorMode = "elastic"
    /\ Len(previewPath) = 3
    /\ Len(currentPath.points) = 3
    /\ Len(currentPath.anchors) = 2
    /\ currentPath.anchors[2].strength = 0
    /\ currentPath.anchors[2].point = Pt(2, 0)

\* C18: when a session's only addAnchor, which gives the path its second anchor,
\* is followed at once by completeLasso(false), the path returned is not closed
\* and has at least two points.
C18_TwoAnchorsGiveTwoPoints ==
    [][(/\ isActive
        /\ lastCall.op = "addAnchor"
        /\ Len(currentPath.anchors) = 2
        /\ Called("completeLasso")
        /\ lastCall'.arg = FALSE)
       => /\ lastCall'.returned # Null
          /\ lastCall'.returned.isClosed = FALSE
          /\ Len(lastCall'.returned.points) >= 2]_vars

\* The sum of the Euclidean distances between points[i] and points[i + 1], from
\* index i on.
RECURSIVE SumOfSteps(_, _)
SumOfSteps(points, i) ==
    IF i >= Len(points) THEN 0
    ELSE SqrtBetween((points[i + 1].x - points[i].x) * (points[i + 1].x - points[i].x)
                     + (points[i + 1].y - points[i].y) * (points[i + 1].y - points[i].y),
                     0, 46340)
         + SumOfSteps(points, i + 1)

\* C19: completeLasso(true) on an Active engine whose path has at least 3 points
\* once the preview is committed returns a path with isClosed = true and
\* totalLength = the sum of the distances between consecutive points of the whole
\* returned list; completeLasso(false), and completeLasso(true) with fewer than 3
\* points, return isClosed = false.
C19_CompleteClosesAndMeasures ==
    [][(isActive /\ Called("completeLasso"))
       => LET committed == Len(currentPath.points)
                               + (IF Len(previewPath) > 0 THEN Len(previewPath) - 1
                                  ELSE 0)
              result == lastCall'.returned
          IN  /\ result # Null
              /\ (lastCall'.arg /\ committed >= 3)
                    => /\ result.isClosed
                       /\ Len(result.points) >= committed
                       /\ result.totalLength = SumOfSteps(result.points, 1)
              /\ (~lastCall'.arg \/ committed < 3) => ~result.isClosed]_vars

\* A searched path of three points was closed by the searched path back around the
\* wall: five points, four steps of length sqrt(5).
C19_Witness ==
    /\ calls > 0
    /\ lastCall.op = "completeLasso"
    /\ lastCall.arg
    /\ lastCall.returned # Null
    /\ lastCall.returned.isClosed
    /\ lastCall.returned.points = <<Pt(0, 0), Pt(1, 2), Pt(2, 0), Pt(1, 2), Pt(0, 0)>>
    /\ lastCall.returned.totalLength = 4 * 22360

\* C20: completeLasso on an Active engine returns the path and leaves the engine
\* Idle (isActive = false, no currentPath, empty previewPath), and a completeLasso
\* right after it returns null; cancelLasso on an Active engine leaves the same
\* Idle state and returns no path; a startLasso after either begins a session whose
\* path holds the start point and one new anchor only, with nothing left to commit.
C20_SessionEndsOnce ==
    [][/\ (isActive /\ Called("completeLasso"))
          => /\ lastCall'.returned # Null
             /\ ~isActive'
             /\ currentPath' = Null
             /\ previewPath' = <<>>
       /\ (calls > 0 /\ lastCall.op = "completeLasso" /\ Called("completeLasso"))
          => lastCall'.returned = Null
       /\ (isActive /\ Called("cancelLasso"))
          => /\ lastCall'.returned = Null
             /\ ~isActive'
             /\ currentPath' = Null
             /\ previewPath' = <<>>
       /\ (calls > 0 /\ lastCall.op \in {"completeLasso", "cancelLasso"}
              /\ Called("startLasso"))
          => /\ currentPath'.points = <<lastCall'.arg>>
             /\ Len(currentPath'.anchors) = 1
             /\ currentPath'.anchors[1].id > uuidCount
             /\ currentPath'.anchors[1].point = lastCall'.arg
             /\ previewPath' = <<>>
             /\ trajectoryHistory' = <<lastCall'.arg>>]_vars

\* completeLasso returned a path of two anchors and three or more points, and the
\* engine is Idle.
C20_Witness ==
    /\ calls > 0
    /\ lastCall.op = "completeLasso"
    /\ lastCall.returned # Null
    /\ Len(lastCall.returned.anchors) = 2
    /\ Len(lastCall.returned.points) >= 3
    /\ ~isActive
    /\ currentPath = Null
    /\ previewPath = <<>>

\* C21: while anchorMode is manual or elastic, a call of updateLasso on an Active
\* session leaves the anchors and the permanent points as they were, and a step that
\* lengthens the anchor list is a call of addAnchor.
C21_ManualAndElasticNeverAutoAdd ==
    [][(/\ lassoOptions.anchorMode \in {"manual", "elastic"}
        /\ isActive /\ currentPath # Null)
       => /\ Called("updateLasso")
             => /\ currentPath' # Null
                /\ Len(currentPath'.anchors) = Len(currentPath.anchors)
                /\ \A i \in DOMAIN currentPath.anchors :
                       /\ currentPath'.anchors[i].id = currentPath.anchors[i].id
                       /\ currentPath'.anchors[i].point = currentPath.anchors[i].point
                /\ currentPath'.points = currentPath.points
          /\ (currentPath' # Null /\ Len(currentPath'.anchors) > Len(currentPath.anchors))
             => Called("addAnchor")]_vars

\* An update in elastic mode that met the conditions the timed and the distance
\* policies wait for (a second since the last anchor, two pixels from it, a fast
\* pointer) and left the one anchor of startLasso alone.
C21_Witness ==
    /\ lastCall # Null /\ lastCall.op = "updateLasso"
    /\ isActive
    /\ lassoOptions.anchorMode = "elastic"
    /\ metrics.cursorSpeed > Scale
    /\ now - lastAnchorTime >= lassoOptions.autoAnchorTimeInterval
    /\ Len(currentPath.anchors) = 1
    /\ Len(previewPath) >= 2
    /\ Norm(previewPath[Len(previewPath)].x - currentPath.anchors[1].point.x,
            previewPath[Len(previewPath)].y - currentPath.anchors[1].point.y)
           >= lassoOptions.autoAnchorDistance

\* The anchor of the path p, if any, with the given id.
AnchorsWithId(p, id) ==
    IF p = Null THEN {}
    ELSE {p.anchors[i] : i \in {j \in DOMAIN p.anchors : p.anchors[j].id = id}}

\* C22: over startLasso, updateLasso, addAnchor, setOptions and setVariation with a
\* clock that never runs back, after every step each anchor's strength is within
\* [0, 1], it is below 1 only while anchorMode is elastic, and it is not lower than
\* the strength the same anchor had before the step.
C22_StrengthsBoundedAndRising ==
    [][currentPath' # Null
       => \A i \in DOMAIN currentPath'.anchors :
             LET anchor == currentPath'.anchors[i]
             IN  /\ 0 <= anchor.strength /\ anchor.strength <= Scale
                 /\ anchor.strength < Scale => lassoOptions'.anchorMode = "elastic"
                 /\ \A before \in AnchorsWithId(currentPath, anchor.id) :
                        before.strength <= anchor.strength]_vars

\* The result of the search computePath runs between two points with the options
\* and the cost field given.
SearchBetween(opts, cm, from, to) ==
    LET pathOpts == [neighborMode |-> opts.neighborMode,
                     directionContinuityCost |-> opts.directionContinuityCost,
                     cursorInfluence |-> GetCursorInfluenceForVariation(opts),
                     maxIterations |-> 50000]
        fromCell == [x |-> RoundFixed(from.x), y |-> RoundFixed(from.y)]
        toCell == [x |-> RoundFixed(to.x), y |-> RoundFixed(to.y)]
    IN  IF opts.pathfindingAlgorithm = "astar"
        THEN AstarSearch(fromCell, toCell, cm, pathOpts)
        ELSE DijkstraSearch(fromCell, toCell, cm, pathOpts)

\* The search of the latest update failed: there is a cost field, and the search
\* from the anchor given to the stabilized point reports no success or no path.
SearchFailed(opts, cm, from, to) ==
    /\ cm # Null
    /\ \E result \in {SearchBetween(opts, cm, from, to)} :
          ~result.success \/ result.path = <<>>

\* C23: a call of updateLasso on an Active session completes and leaves the session
\* Active; when there is no cost field, or the search between the last anchor and
\* the stabilized point fails, previewPath afterwards is exactly those two points;
\* otherwise it is a path made of the search's result, from its first to its last
\* point: nothing of the previous preview is left.
C23_PreviewFallsBackToLine ==
    [][(isActive /\ currentPath # Null /\ Called("updateLasso"))
       => LET lastAnchor == currentPath.anchors[Len(currentPath.anchors)]
              stabilizedPoint == lazyCursor'.innerPosition
          IN  /\ isActive' /\ currentPath' # Null
              /\ lastCall'.returned = Null
              /\ IF lassoCostMap = Null
                    \/ SearchFailed(lassoOptions, lassoCostMap, lastAnchor.point,
                                    stabilizedPoint)
                 THEN previewPath' = <<lastAnchor.point, stabilizedPoint>>
                 ELSE \E result \in {SearchBetween(lassoOptions, lassoCostMap,
                                                   lastAnchor.point, stabilizedPoint)} :
                         /\ Len(previewPath') >= 1
                         /\ Len(previewPath') <= Len(result.path)
                         /\ previewPath'[1] = Pt(result.path[1].x, result.path[1].y)
                         /\ previewPath'[Len(previewPath')]
                                = Pt(result.path[Len(result.path)].x,
                                     result.path[Len(result.path)].y)]_vars

\* An update with a cost field whose search failed (the pointer is right of the
\* field): the preview is the line from the anchor to the pointer.
C23_Witness ==
    /\ lastCall # Null /\ lastCall.op = "updateLasso"
    /\ isActive
    /\ lassoCostMap # Null
    /\ Len(currentPath.anchors) = 1
    /\ SearchFailed(lassoOptions, lassoCostMap, currentPath.anchors[1].point,
                    lazyCursor.innerPosition)
    /\ previewPath = <<currentPath.anchors[1].point, lazyCursor.innerPosition>>
    /\ currentPath.anchors[1].point # lazyCursor.innerPosition

\* The penalty of leaving a cell in direction outgoing after entering it in
\* direction incoming: directionContinuityCost * d / pi, d the angle between them.
TurnPenalty(incoming, outgoing, directionContinuityCost) ==
    LET d == Abs(outgoing - incoming)
    IN  (directionContinuityCost * Min(d, Pi * 2 - d)) \div Pi

\* The neighbours of the popped cell whose entry in the map of distances the step
\* wrote, as [x, y, moveCost].
RelaxedNeighbors(current, before, after) ==
    {n \in {GetNeighbors(current.x, current.y, pathOptions.neighborMode)[i] :
                i \in 1 .. pathOptions.neighborMode} :
        /\ n.x >= 0 /\ n.x < costMap.width /\ n.y >= 0 /\ n.y < costMap.height
        /\ PointKey(n.x, n.y) \in DOMAIN after
        /\ \/ PointKey(n.x, n.y) \notin DOMAIN before
           \/ after[PointKey(n.x, n.y)] # before[PointKey(n.x, n.y)]}

\* The cost of the first part of a relaxed step: the distance of the popped cell,
\* the move and the turn, the turn counted for every cell that a move entered
\* (prevDir is -1 in the entry of the start alone, else the direction of that move).
StepWithTurn(current, n, before) ==
    GetOrZero(before, PointKey(current.x, current.y))
    + StepCost(n.moveCost, GetCostAt(costMap, n.x, n.y))
    + (IF current.prevDir = -1 THEN 0
       ELSE TurnPenalty(current.prevDir, Atan2(n.y - current.y, n.x - current.x),
                        pathOptions.directionContinuityCost))

\* C24: with directionContinuityCost > 0, every step relaxed by dijkstra and by
\* astar out of a cell that a move entered carries the turn penalty
\* directionContinuityCost * d / pi, whatever the direction of the move that
\* entered the cell; the penalty is zero for the first step and for a step in the
\* same direction. Checked in the searches that start and end inside the field.
C24_TurnsAlwaysPenalised ==
    [][(pathOptions # <<>> /\ pathOptions.directionContinuityCost > 0
        /\ StartInside /\ EndInside
        /\ iterations' = iterations + 1)
       => /\ (pathPc = "dijkstraLoop" /\ pathPc' = "dijkstraLoop")
             => \A n \in RelaxedNeighbors(heap[1].value, dist, dist') :
                   dist'[PointKey(n.x, n.y)]
                      = StepWithTurn(heap[1].value, n, dist)
                        + CursorCost(pathOptions.cursorInfluence,
                                     Heuristic(n.x, n.y, EndCell.x, EndCell.y))
          /\ (pathPc = "astarLoop" /\ pathPc' = "astarLoop")
             => \A n \in RelaxedNeighbors(heap[1].value, gScore, gScore') :
                   gScore'[PointKey(n.x, n.y)] = StepWithTurn(heap[1].value, n, gScore)]_vars

\* No cell occurs twice in the path.
VisitsOnce(path) ==
    \A i, j \in DOMAIN path : (path[i].x = path[j].x /\ path[i].y = path[j].y) => i = j

\* Every recorded predecessor is nearer by at least 0.01 than the cell it leads to.
PredecessorsNearer(d, pv) ==
    \A k \in DOMAIN pv :
        /\ k \in DOMAIN d /\ pv[k] \in DOMAIN d
        /\ d[k] >= d[pv[k]] + (Scale \div 100)

\* C25: at every point of dijkstra and of astar the recorded distance of a cell
\* exceeds that of its recorded predecessor by at least 0.01, the weight every
\* relaxation adds at least; so the predecessors form no cycle, and a returned
\* path visits no cell twice.
C25_PredecessorsStrictlyNearer ==
    /\ pathPc \in {"dijkstraLoop", "astar"} => PredecessorsNearer(dist, prev)
    /\ pathPc \in {"astarLoop", "done"} => PredecessorsNearer(gScore, prev)
    /\ \A r \in {dijkstraResult, astarResult} :
          (r # <<>> /\ r.success) => VisitsOnce(r.path)

\* Both searches have returned a path of four cells or more on a field that is
\* not flat, with a direction and a cursor term in the weights.
C25_Witness ==
    /\ PathDone /\ StartInside /\ EndInside /\ ~IsFlat
    /\ pathOptions.directionContinuityCost > 0 /\ pathOptions.cursorInfluence > 0
    /\ dijkstraResult.success /\ astarResult.success
    /\ Len(dijkstraResult.path) >= 4 /\ Len(astarResult.path) >= 4
    /\ PredecessorsNearer(gScore, prev)
    /\ DOMAIN prev # {}

\* The weight the edge formula gives step i of the path (from point i - 1 to point
\* i): moveCost * (cost + 0.01), the turn penalty after the first step, and the
\* cursor term when withCursor.
EdgeWeight(path, i, withCursor) ==
    LET dx == path[i].x - path[i - 1].x
        dy == path[i].y - path[i - 1].y
        moveCost == IF Abs(dx) + Abs(dy) = 1 THEN Scale ELSE MathSqrt(2)
    IN  StepCost(moveCost, GetCostAt(costMap, path[i].x, path[i].y))
        + (IF i = 2 THEN 0
           ELSE TurnPenalty(Atan2(path[i - 1].y - path[i - 2].y,
                                  path[i - 1].x - path[i - 2].x),
                            Atan2(dy, dx), pathOptions.directionContinuityCost))
        + (IF withCursor
           THEN CursorCost(pathOptions.cursorInfluence,
                           Heuristic(path[i].x, path[i].y, EndCell.x, EndCell.y))
           ELSE 0)

\* The sum of the edge weights of the steps of the path up to point i.
RECURSIVE PathWeight(_, _, _)
PathWeight(path, i, withCursor) ==
    IF i < 2 THEN 0
    ELSE PathWeight(path, i - 1, withCursor) + EdgeWeight(path, i, withCursor)

\* C26: a search between cells of the field that succeeds reports as cost the sum,
\* over the steps of the path it returns, of the edge weights: with the cursor
\* term in dijkstra, without it in astar.
C26_CostIsSumOfPathWeights ==
    (PathDone /\ StartInside /\ EndInside)
    => /\ dijkstraResult.success
          => dijkstraResult.cost
                = PathWeight(dijkstraResult.path, Len(dijkstraResult.path), TRUE)
       /\ astarResult.success
          => astarResult.cost
                = PathWeight(astarResult.path, Len(astarResult.path), FALSE)

\* The length of the shortest 4-connected walk through accepted pixels from the
\* pixels of S, d steps from the seed, to pixel i; Infinity when there is none.
RECURSIVE WalkDistance(_, _, _)
WalkDistance(S, i, d) ==
    IF i \in S THEN d
    ELSE LET next == S \cup {j \in Accepted : \E k \in S : Orthogonal(j, k)}
         IN  IF next = S THEN Infinity ELSE WalkDistance(next, i, d + 1)

SeedDistance(i) == WalkDistance({SeedIndex}, i, 0)

\* C27: a contiguous floodFill returns its pixels in breadth-first order: along
\* the list the 4-connected distance from the seed never decreases, and when
\* maxPixels cuts the fill short no pixel left out is nearer to the seed than a
\* pixel selected.
C27_BreadthFirstOrder ==
    (FloodDone /\ options.contiguous /\ SeedInside)
    => /\ \A a, b \in DOMAIN floodResult.pixels :
             a < b => SeedDistance(floodResult.pixels[a])
                         <= SeedDistance(floodResult.pixels[b])
       /\ \A i \in Selected : \A j \in Reachable \ Selected :
             SeedDistance(i) <= SeedDistance(j)

\* The distance between the last two points of the trajectory buffer; 0 when it
\* holds fewer than two.
LastTrajectoryStep(history) ==
    IF Len(history) < 2 THEN 0
    ELSE Norm(history[Len(history)].x - history[Len(history) - 1].x,
              history[Len(history)].y - history[Len(history) - 1].y)

Apart(p, q) == Norm(p.x - q.x, p.y - q.y)

\* a and b are equal up to the rounding of the coordinates they are computed from:
\* two units of the fixed point, 0.0002 pixels.
RoundsTo(a, b) == Abs(a - b) <= 2

\* C29: updateLazyCursor(p), as run by updateLasso, sets the outer position to p;
\* it leaves the inner position where it was when p is within the radius of it,
\* and else moves it towards p by (distance - radius) * smoothingFactor: it ends
\* that much nearer to p, and so not nearer to p than the radius.
C29_InnerStaysOutsideRadius ==
    [][(isActive /\ currentPath # Null /\ Called("updateLasso"))
       => LET p == lastCall'.arg
              inner == lazyCursor.innerPosition
              distance == Apart(p, inner)
              moveDistance == ((distance - lazyCursor.radius) * lazyCursor.smoothingFactor)
                                  \div Scale
          IN  /\ lazyCursor'.outerPosition = p
              /\ lazyCursor'.radius = lazyCursor.radius
              /\ lazyCursor'.smoothingFactor = lazyCursor.smoothingFactor
              /\ distance <= lazyCursor.radius => lazyCursor'.innerPosition = inner
              /\ distance > lazyCursor.radius
                 => /\ RoundsTo(Apart(lazyCursor'.innerPosition, inner), moveDistance)
                    /\ RoundsTo(Apart(lazyCursor'.innerPosition, p),
                                distance - moveDistance)
                    /\ \/ Apart(lazyCursor'.innerPosition, p) >= lazyCursor.radius
                       \/ RoundsTo(Apart(lazyCursor'.innerPosition, p),
                                   lazyCursor.radius)]_vars

\* An update moved the inner position part of the way: with a radius of one pixel
\* and a smoothing factor of one half it stopped more than a pixel from the
\* pointer, away from where it was.
C29_Witness ==
    /\ lastCall # Null /\ lastCall.op = "updateLasso"
    /\ isActive
    /\ lazyCursor.radius = Scale /\ lazyCursor.smoothingFactor = Scale \div 2
    /\ lazyCursor.outerPosition = lastCall.arg
    /\ lazyCursor.innerPosition # lazyCursor.outerPosition
    /\ lazyCursor.innerPosition \notin LassoPoints
    /\ Apart(lazyCursor.innerPosition, lazyCursor.outerPosition) > Scale

\* The last n elements of the sequence, all of them when it has fewer.
LastOf(seq, n) == SubSeq(seq, Max(1, Len(seq) - n + 1), Len(seq))

\* C30: after every call of updateLasso on an Active session, whatever setOptions
\* made of trajectoryLookback before, the trajectory buffer holds at most
\* trajectoryLookback points: the most recent stabilized points, in the order of
\* their arrival.
C30_BufferWithinLookback ==
    [][(isActive /\ currentPath # Null /\ Called("updateLasso"))
       => /\ Len(trajectoryHistory') <= lassoOptions.trajectoryLookback
          /\ trajectoryHistory'
                = LastOf(Append(trajectoryHistory, lazyCursor'.innerPosition),
                         lassoOptions.trajectoryLookback)]_vars

\* C36: for every seed inside the image and every tolerance, with no maxPixels or
\* one of at least 1, in contiguous and in global mode, the seed pixel is selected:
\* its mask entry is 255 and its index is in pixels.
C36_SeedIsSelected ==
    (FloodDone /\ SeedInside
        /\ (options.maxPixels = Undefined \/ options.maxPixels >= 1))
    => /\ floodResult.mask[SeedIndex] = 255
       /\ \E i \in DOMAIN floodResult.pixels : floodResult.pixels[i] = SeedIndex

\* What is left to do of the contiguous traversal: a step takes one pair off the
\* queue, and pushes four only when it marks a pixel as visited.
WorkLeft(v, q) == 4 * Cardinality({i \in DOMAIN v : v[i] = 0}) + Len(q) \div 2

\* The result is consistent: the mask holds 0 and 255 only, 255 exactly at the
\* indices in pixels, no index is in pixels twice, and pixelCount is the length of
\* pixels.
ResultIsConsistent ==
    FloodDone
    => /\ \A i \in DOMAIN floodResult.mask : floodResult.mask[i] \in {0, 255}
       /\ \A i \in DOMAIN floodResult.mask :
             floodResult.mask[i] = 255
                <=> \E k \in DOMAIN floodResult.pixels : floodResult.pixels[k] = i
       /\ \A k \in DOMAIN floodResult.pixels :
             floodResult.pixels[k] \in DOMAIN floodResult.mask
       /\ \A j, k \in DOMAIN floodResult.pixels :
             floodResult.pixels[j] = floodResult.pixels[k] => j = k
       /\ floodResult.pixelCount = Len(floodResult.pixels)

\* A step of the contiguous traversal tests a pixel only when it marks it as
\* visited, a pixel that was not visited before, and it leaves less work.
TestsOnce ==
    floodPc = "bfs" /\ floodPc' # "done"
    => /\ \A i \in DOMAIN visited : visited[i] # 0 => visited'[i] = visited[i]
       /\ Cardinality({i \in DOMAIN visited : visited'[i] # visited[i]}) <= 1
       /\ pixels' # pixels
          => \E i \in DOMAIN visited :
                /\ visited[i] = 0 /\ visited'[i] = 1
                /\ pixels' = Append(pixels, i)
       /\ WorkLeft(visited', queue') < WorkLeft(visited, queue)

\* C37: every result of floodFill is consistent (mask entries 0 or 255, 255 exactly
\* at the indices in pixels, no index twice, pixelCount the length of pixels); the
\* contiguous traversal tests each pixel at most once, and every call returns.
C37_ConsistentAndTerminates ==
    /\ []ResultIsConsistent
    /\ [][TestsOnce]_vars
    /\ <>FloodDone

\* A contiguous fill has returned that selected four pixels or more and met
\* pixels it rejected.
C37_Witness ==
    /\ FloodDone /\ SeedInside /\ options.contiguous
    /\ ResultIsConsistent
    /\ Cardinality(Selected) >= 4
    /\ Accepted # AllPixels
    /\ \E i \in AllPixels \ Accepted : visited[i] = 1

\* The previewPath, when there is one, starts at the point of the last anchor.
PreviewStartsAtLastAnchor ==
    (isActive /\ currentPath # Null /\ Len(previewPath) > 0)
    => previewPath[1] = currentPath.anchors[Len(currentPath.anchors)].point

\* An addAnchor or completeLasso that follows an addAnchor at once appends nothing
\* to the points the path has.
NoSecondCommit ==
    (/\ isActive /\ lastCall.op = "addAnchor"
     /\ (Called("addAnchor") \/ Called("completeLasso"))
     /\ lastCall'.arg \in {Null, FALSE})
    => IF lastCall'.op = "addAnchor"
       THEN currentPath'.points = currentPath.points
       ELSE lastCall'.returned.points = currentPath.points

\* C34: a preview is committed at most once: after addAnchor has committed the
\* previewPath, an addAnchor or completeLasso that follows without an updateLasso
\* in between appends no point of that preview again; and whenever the previewPath
\* is not empty its first point is the point of the current last anchor.
C34_PreviewCommittedOnce ==
    /\ []PreviewStartsAtLastAnchor
    /\ [][NoSecondCommit]_vars

\* The points of seq, as a set.
PointsOf(seq) == {seq[i] : i \in DOMAIN seq}

\* C35: at every Active state reached by updateLasso or addAnchor, with points of
\* integer coordinates, the point of every anchor is one of the path's points and
\* the point of the last anchor is the last of the path's points.
C35_AnchorsLieOnPath ==
    (/\ isActive /\ currentPath # Null
     /\ calls > 0 /\ lastCall.op \in {"updateLasso", "addAnchor"}
     /\ \A i \in DOMAIN currentPath.anchors :
            /\ currentPath.anchors[i].point.x % Scale = 0
            /\ currentPath.anchors[i].point.y % Scale = 0)
    => /\ \A i \in DOMAIN currentPath.anchors :
             currentPath.anchors[i].point \in PointsOf(currentPath.points)
       /\ currentPath.anchors[Len(currentPath.anchors)].point
              = currentPath.points[Len(currentPath.points)]

\* seq is the beginning of longer, anchors compared by id and point.
IsPrefix(seq, longer) ==
    /\ Len(seq) <= Len(longer)
    /\ \A i \in DOMAIN seq : seq[i] = longer[i]

AnchorPlaces(anchors) ==
    [i \in DOMAIN anchors |-> [id |-> anchors[i].id, point |-> anchors[i].point]]

\* The engine is Active exactly when it has a path; an Active engine has a point
\* and an anchor at least; an Idle engine has no previewPath.
SessionShape ==
    /\ isActive <=> currentPath # Null
    /\ isActive => /\ Len(currentPath.points) >= 1
                   /\ Len(currentPath.anchors) >= 1
    /\ ~isActive => previewPath = <<>>

\* A step within one session (any call but startLasso, on an engine that is
\* Active before and after) removes and reorders no point and no anchor.
SessionOnlyGrows ==
    (isActive /\ isActive' /\ calls' = calls + 1 /\ lastCall'.op # "startLasso")
    => /\ IsPrefix(currentPath.points, currentPath'.points)
       /\ IsPrefix(AnchorPlaces(currentPath.anchors), AnchorPlaces(currentPath'.anchors))

\* C38: at every state reached by startLasso, updateLasso, addAnchor, completeLasso
\* and cancelLasso in any order, isActive holds exactly when currentPath is not
\* none, an Active engine has at least one point and one anchor, an Idle engine has
\* an empty previewPath, and during one session the lists of anchors and of points
\* only grow.
C38_SessionStateIsWellFormed ==
    /\ []SessionShape
    /\ [][SessionOnlyGrows]_vars

\* An update has just lengthened the path of a session that was started after an
\* earlier one ended: three points or more, two anchors or more.
C38_Witness ==
    /\ isActive /\ SessionShape
    /\ lastCall.op = "updateLasso"
    /\ currentPath.anchors[1].id > 1
    /\ Len(currentPath.anchors) >= 2
    /\ Len(currentPath.points) >= 3

\* The point has integer coordinates.
OnPixel(p) == p.x % Scale = 0 /\ p.y % Scale = 0

\* The last point of the path once the previewPath is committed to it.
LastCommitted ==
    IF Len(previewPath) > 1 THEN previewPath[Len(previewPath)]
    ELSE currentPath.points[Len(currentPath.points)]

\* C39: whenever completeLasso returns a path with isClosed = true, in a session
\* whose points have integer coordinates (the first point of the path and the
\* last one committed before the closing segment are all the closing reads), the
\* last point of the path returned is its first point, with a searched closing
\* segment and with the straight one.
C39_ClosedPathEndsAtStart ==
    [][(/\ isActive /\ currentPath # Null
        /\ Called("completeLasso")
        /\ lastCall'.returned # Null
        /\ lastCall'.returned.isClosed
        /\ OnPixel(currentPath.points[1])
        /\ OnPixel(LastCommitted))
       => lastCall'.returned.points[Len(lastCall'.returned.points)]
             = lastCall'.returned.points[1]]_vars

\* completeLasso has closed a path from (0,0) to (2,0) with a closing segment that
\* was searched around the wall, simplified to its turning point (1,2) and
\* smoothed, which moves that point to (1,1).
C39_Witness ==
    /\ calls > 0 /\ lastCall.op = "completeLasso"
    /\ lastCall.returned # Null
    /\ lastCall.returned.isClosed
    /\ lassoCostMap # Null
    /\ lassoOptions.variation = "elastic-progressive"
    /\ lastCall.returned.points[1] = Pt(0, 0)
    /\ Len(lastCall.returned.points) = 5
    /\ lastCall.returned.points[3] = Pt(2, 0)
    /\ lastCall.returned.points[4] = Pt(1, 1)
    /\ lastCall.returned.points[5] = Pt(0, 0)

\* ---------------------------------------------------------------- lassoPathToMask

\* Coordinates of the points are in halves of a pixel, so that points between
\* pixels can be given; an intersection is kept as the exact fraction num / den
\* of a pixel, den > 0. The rounding of the floating-point division is left out.

MaxMaskW == 2
MaxMaskH == 2
MaxMaskLen == 4

\* The intersections of row y with the edges from points[i] on, the edge from the
\* last point back to the first included:
\* if ((p1.y <= y && p2.y > y) || (p2.y <= y && p1.y > y))
\*     x = p1.x + (y - p1.y) / (p2.y - p1.y) * (p2.x - p1.x)
RECURSIVE Intersections(_, _, _)
Intersections(points, y, i) ==
    IF i > Len(points) THEN <<>>
    ELSE LET p1 == points[i]
             p2 == points[(i % Len(points)) + 1]
             crosses == \/ p1.y <= 2 * y /\ p2.y > 2 * y
                        \/ p2.y <= 2 * y /\ p1.y > 2 * y
             dy == p2.y - p1.y
             n == p1.x * dy + (2 * y - p1.y) * (p2.x - p1.x)
             x == IF dy > 0 THEN [num |-> n, den |-> 2 * dy]
                  ELSE [num |-> 0 - n, den |-> 0 - 2 * dy]
         IN  (IF crosses THEN <<x>> ELSE <<>>) \o Intersections(points, y, i + 1)

\* intersections.sort((a, b) => a - b)
RECURSIVE SortAscending(_)
SortAscending(xs) ==
    IF Len(xs) <= 1 THEN xs
    ELSE LET pivot == xs[1]
             rest == Tail(xs)
             Before(q) == q.num * pivot.den < pivot.num * q.den
             NotBefore(q) == ~Before(q)
         IN  SortAscending(SelectSeq(rest, Before))
             \o <<pivot>>
             \o SortAscending(SelectSeq(rest, NotBefore))

\* Mutant: the end of a span is not held back to the last column.
XEndUnclamped(width, q) == q.num \div q.den

\* Math.min(width - 1, Math.floor(intersections[i + 1]))
XEnd(width, q) == Min(width - 1, q.num \div q.den)

\* The indices y * width + x the spans of row y assign, pair by pair from
\* intersections[i] on, with xStart = Math.max(0, Math.ceil(intersections[i]));
\* an intersection without a partner is skipped.
RECURSIVE SpanIndices(_, _, _, _)
SpanIndices(sorted, width, y, i) ==
    IF i + 1 > Len(sorted) THEN {}
    ELSE LET xStart == Max(0, 0 - ((0 - sorted[i].num) \div sorted[i].den))
         IN  {y * width + x : x \in xStart .. XEnd(width, sorted[i + 1])}
             \cup SpanIndices(sorted, width, y, i + 2)

\* The indices the scanline of row y assigns.
RowIndices(points, width, y) ==
    SpanIndices(SortAscending(Intersections(points, y, 1)), width, y, 1)

\* ---- the paths and sizes tried

\* x of -1, 0.5 and 2 pixels, y of -1, 1 and 2 pixels.
MaskPoints == {[x |-> x, y |-> y] : x \in {0 - 2, 1, 4}, y \in {0 - 2, 2, 4}}

MaskPaths ==
    [points : UNION {[1 .. n -> MaskPoints] : n \in 2 .. MaxMaskLen},
     isClosed : BOOLEAN]

InitMask ==
    /\ maskPath \in MaskPaths
    /\ maskWidth \in 1 .. MaxMaskW
    /\ maskHeight \in 1 .. MaxMaskH
    /\ maskOut = <<>>
    /\ maskRow = 0
    /\ maskPc = "call"
    /\ FloodUnused
    /\ PathIdle
    /\ UtilUnused
    /\ LassoUnused
    /\ EdgeUnused

\* lassoPathToMask up to its loop: the zeroed mask, returned at once for a path
\* that is not closed or has fewer than 3 points.
LassoPathToMaskEnter ==
    /\ maskPc = "call"
    /\ maskOut' = [k \in 0 .. (maskWidth * maskHeight - 1) |-> 0]
    /\ maskPc' = IF ~maskPath.isClosed \/ Len(maskPath.points) < 3
                 THEN "done" ELSE "rows"
    /\ UNCHANGED <<maskPath, maskWidth, maskHeight, maskRow>>
    /\ UNCHANGED exceptMask

\* One pass of the loop over y: the intersections of the row, sorted, filled
\* pair by pair with mask[y * width + x] = 255; a typed array ignores an
\* assignment outside its length.
ScanLine ==
    /\ maskPc = "rows"
    /\ maskRow < maskHeight
    /\ \E indices \in {RowIndices(maskPath.points, maskWidth, maskRow)} :
          maskOut' = [k \in DOMAIN maskOut |->
                         IF k \in indices THEN 255 ELSE maskOut[k]]
    /\ maskRow' = maskRow + 1
    /\ UNCHANGED <<maskPath, maskWidth, maskHeight, maskPc>>
    /\ UNCHANGED exceptMask

\* return mask
LassoPathToMaskReturn ==
    /\ maskPc = "rows"
    /\ maskRow >= maskHeight
    /\ maskPc' = "done"
    /\ UNCHANGED <<maskPath, maskWidth, maskHeight, maskOut, maskRow>>
    /\ UNCHANGED exceptMask

NextMask == LassoPathToMaskEnter \/ ScanLine \/ LassoPathToMaskReturn

SpecMask == InitMask /\ [][NextMask]_vars

\* The pixel columns and rows the points of the path span, in halves of a pixel.
MaskBox(points) ==
    [minX |-> CHOOSE v \in {points[i].x : i \in DOMAIN points} :
                  \A i \in DOMAIN points : v <= points[i].x,
     maxX |-> CHOOSE v \in {points[i].x : i \in DOMAIN points} :
                  \A i \in DOMAIN points : v >= points[i].x,
     minY |-> CHOOSE v \in {points[i].y : i \in DOMAIN points} :
                  \A i \in DOMAIN points : v <= points[i].y,
     maxY |-> CHOOSE v \in {points[i].y : i \in DOMAIN points} :
                  \A i \in DOMAIN points : v >= points[i].y]

\* Pixel k of the mask lies inside the bounding box of the points.
InMaskBox(k, points) ==
    LET x == k % maskWidth
        y == k \div maskWidth
    IN  /\ MaskBox(points).minX <= 2 * x /\ 2 * x <= MaskBox(points).maxX
        /\ MaskBox(points).minY <= 2 * y /\ 2 * y <= MaskBox(points).maxY

\* C40: lassoPathToMask(path, W, H) returns a mask of W * H entries, each 0 or
\* 255; all entries are 0 when the path is not closed or has fewer than 3 points;
\* for a closed path every index the fill assigns is inside the buffer and every
\* entry set lies inside the bounding box of the path's points.
C40_MaskStaysInBufferAndBox ==
    maskPc = "done"
    => /\ DOMAIN maskOut = 0 .. (maskWidth * maskHeight - 1)
       /\ \A k \in DOMAIN maskOut : maskOut[k] \in {0, 255}
       /\ (~maskPath.isClosed \/ Len(maskPath.points) < 3)
          => \A k \in DOMAIN maskOut : maskOut[k] = 0
       /\ \A y \in 0 .. (maskHeight - 1) :
             RowIndices(maskPath.points, maskWidth, y) \subseteq DOMAIN maskOut
       /\ \A k \in DOMAIN maskOut :
             maskOut[k] = 255 => InMaskBox(k, maskPath.points)

\* The mask of a closed path with a point left of the buffer and a point between
\* two columns has entries set and entries left at 0.
C40_Witness ==
    /\ maskPc = "done"
    /\ maskPath.isClosed /\ Len(maskPath.points) >= 3
    /\ \E i \in DOMAIN maskPath.points : maskPath.points[i].x < 0
    /\ \E i \in DOMAIN maskPath.points : maskPath.points[i].x = 1
    /\ \E k \in DOMAIN maskOut : maskOut[k] = 255
    /\ \E k \in DOMAIN maskOut : maskOut[k] = 0

\* ---------------------------------------------------------------- computeEdgeMap

\* An image after toGrayscale is kept as one channel, [width, height, data] with
\* data[i] the value its r, g and b share; the edge detectors and the cost field
\* read the red channel only. Storing into ImageData.data rounds to the nearest
\* integer and clamps to 0 .. 255.

MaxEdgeW == 3
MaxEdgeH == 2

\* gray = 0.299 * r + 0.587 * g + 0.114 * b, stored into a Uint8ClampedArray
ToGrayscale(img) ==
    [width |-> img.width, height |-> img.height,
     data |-> [i \in DOMAIN img.data |->
                  (299 * img.data[i][1] + 587 * img.data[i][2]
                   + 114 * img.data[i][3] + 500) \div 1000]]

SOBEL_X == <<<<0 - 1, 0, 1>>, <<0 - 2, 0, 2>>, <<0 - 1, 0, 1>>>>
SOBEL_Y == <<<<0 - 1, 0 - 2, 0 - 1>>, <<0, 0, 0>>, <<1, 2, 1>>>>
PREWITT_X == <<<<0 - 1, 0, 1>>, <<0 - 1, 0, 1>>, <<0 - 1, 0, 1>>>>
PREWITT_Y == <<<<0 - 1, 0 - 1, 0 - 1>>, <<0, 0, 0>>, <<1, 1, 1>>>>
LAPLACIAN_3 == <<<<0, 0 - 1, 0>>, <<0 - 1, 4, 0 - 1>>, <<0, 0 - 1, 0>>>>

\* r += data[idx] * kVal over the kernel entries from the j-th on, the image
\* continued beyond its border by its border pixels.
RECURSIVE KernelSum(_, _, _, _, _)
KernelSum(img, kernel, x, y, j) ==
    LET kSize == Len(kernel)
        kHalf == kSize \div 2
        ky == j \div kSize
        kx == j % kSize
        px == Min(img.width - 1, Max(0, x + kx - kHalf))
        py == Min(img.height - 1, Max(0, y + ky - kHalf))
    IN  IF j >= kSize * kSize THEN 0
        ELSE img.data[py * img.width + px] * kernel[ky + 1][kx + 1]
             + KernelSum(img, kernel, x, y, j + 1)

\* convolve(imageData, kernel, false): kSum = 1, and each sum is held to 0 .. 255
\* by Math.min(255, Math.max(0, r / kSum)).
Convolve(img, kernel) ==
    [img EXCEPT !.data =
        [i \in DOMAIN img.data |->
            Min(255, Max(0, KernelSum(img, kernel, i % img.width, i \div img.width, 0)))]]

\* computeGradientMagnitude(gx, gy, threshold): Math.sqrt(dx * dx + dy * dy) >
\* threshold ? 255 : 0, for a threshold that is not negative.
ComputeGradientMagnitude(gx, gy, threshold) ==
    [gx EXCEPT !.data =
        [i \in DOMAIN gx.data |->
            IF gx.data[i] * gx.data[i] + gy.data[i] * gy.data[i] > threshold * threshold
            THEN 255 ELSE 0]]

ApplySobel(img, threshold) ==
    With(ToGrayscale(img), LAMBDA gray :
         ComputeGradientMagnitude(Convolve(gray, SOBEL_X), Convolve(gray, SOBEL_Y),
                                  threshold))

ApplyPrewitt(img, threshold) ==
    With(ToGrayscale(img), LAMBDA gray :
         ComputeGradientMagnitude(Convolve(gray, PREWITT_X), Convolve(gray, PREWITT_Y),
                                  threshold))

\* applyLaplacian with kernelSize 3
ApplyLaplacian(img, threshold) ==
    With(Convolve(ToGrayscale(img), LAPLACIAN_3), LAMBDA result :
         [result EXCEPT !.data =
             [i \in DOMAIN result.data |->
                 IF Abs(result.data[i]) > threshold THEN 255 ELSE 0]])

\* applyRoberts: the last row and the last column keep the 0 of the new ImageData.
ApplyRoberts(img, threshold) ==
    With(ToGrayscale(img), LAMBDA gray :
         LET gx(i) == gray.data[i] - gray.data[i + gray.width + 1]
             gy(i) == gray.data[i + 1] - gray.data[i + gray.width]
         IN  [gray EXCEPT !.data =
                 [i \in DOMAIN gray.data |->
                     IF /\ i \div gray.width < gray.height - 1
                        /\ i % gray.width < gray.width - 1
                     THEN IF gx(i) * gx(i) + gy(i) * gy(i) > threshold * threshold
                          THEN 255 ELSE 0
                     ELSE 0]])

\* applyEdgeDetection(imageData, options); applyCanny is not among the
\* algorithms tried.
ApplyEdgeDetection(img, algorithm, threshold) ==
    CASE algorithm = "sobel" -> ApplySobel(img, threshold)
      [] algorithm = "laplacian" -> ApplyLaplacian(img, threshold)
      [] algorithm = "prewitt" -> ApplyPrewitt(img, threshold)
      [] algorithm = "roberts" -> ApplyRoberts(img, threshold)
      [] OTHER -> ApplySobel(img, threshold)

\* createCostMapFromEdges(edgeMap), invert = true: (255 - edgeStrength) / 255 in
\* fixed point.
CreateCostMapFromEdges(edges) ==
    [width |-> edges.width, height |-> edges.height,
     costs |-> [i \in DOMAIN edges.data |-> ((255 - edges.data[i]) * Scale) \div 255]]

\* computeEdgeMap(imageData) with the options opts: [edgeMap, costMap].
ComputeEdgeMapOn(img, opts) ==
    With(ApplyEdgeDetection(img,
                            IF opts.edgeMethod = "scharr" THEN "sobel"
                            ELSE opts.edgeMethod,
                            opts.edgeThreshold),
         LAMBDA edges : [edgeMap |-> edges, costMap |-> CreateCostMapFromEdges(edges)])

\* ---- the images and options tried

\* Black, white and a red that toGrayscale turns into the grey 76.
EdgeImages ==
    UNION {[width : {w}, height : {h},
            data : [0 .. (w * h - 1) -> {Black, Red, White}]]
           : w \in 1 .. MaxEdgeW, h \in 1 .. MaxEdgeH}

EdgeOptionsTried ==
    [edgeMethod : {"sobel", "scharr", "prewitt", "roberts", "laplacian"},
     edgeThreshold : {30, 100}]

InitEdge ==
    /\ edgeImage \in EdgeImages
    /\ edgeOptions \in EdgeOptionsTried
    /\ edgeMap = <<>>
    /\ edgeCostMap = <<>>
    /\ edgePc = "call"
    /\ FloodUnused
    /\ PathIdle
    /\ UtilUnused
    /\ LassoUnused
    /\ MaskUnused

\* computeEdgeMap(imageData)
ComputeEdgeMapCall ==
    /\ edgePc = "call"
    /\ \E r \in {ComputeEdgeMapOn(edgeImage, edgeOptions)} :
          /\ edgeMap' = r.edgeMap
          /\ edgeCostMap' = r.costMap
    /\ edgePc' = "done"
    /\ UNCHANGED <<edgeImage, edgeOptions>>
    /\ UNCHANGED exceptEdge

NextEdge == ComputeEdgeMapCall

SpecEdge == InitEdge /\ [][NextEdge]_vars

\* The square of the gradient magnitude the detector of edgeOptions takes at
\* pixel i of edgeImage, from the values the code has in hand.
Magnitude2(i) ==
    LET gray == ToGrayscale(edgeImage)
        x == i % gray.width
        y == i \div gray.width
        Square(v) == v * v
        At(kernel) == Min(255, Max(0, KernelSum(gray, kernel, x, y, 0)))
    IN  CASE edgeOptions.edgeMethod \in {"sobel", "scharr"} ->
                 Square(At(SOBEL_X)) + Square(At(SOBEL_Y))
          [] edgeOptions.edgeMethod = "prewitt" ->
                 Square(At(PREWITT_X)) + Square(At(PREWITT_Y))
          [] edgeOptions.edgeMethod = "laplacian" -> Square(At(LAPLACIAN_3))
          [] edgeOptions.edgeMethod = "roberts" ->
                 Square(gray.data[i] - gray.data[i + gray.width + 1])
                 + Square(gray.data[i + 1] - gray.data[i + gray.width])

\* The pixels at which the detector takes a gradient: all of them, but for
\* Roberts, which leaves out the last row and the last column.
HasGradient(i) ==
    edgeOptions.edgeMethod = "roberts"
    => /\ i \div edgeImage.width < edgeImage.height - 1
       /\ i % edgeImage.width < edgeImage.width - 1

\* C32: with Sobel, Prewitt, Roberts and Laplacian the cost of each pixel is
\* 1 - clamp(magnitude, 0, 255) / 255: every cost lies in [0, 1], a magnitude of 0
\* gives the cost 1, a magnitude of 255 or more the cost 0, and a magnitude
\* strictly between 0 and 255 a cost strictly between 0 and 1.
C32_CostFollowsMagnitude ==
    (edgePc = "done"
       /\ edgeOptions.edgeMethod \in {"sobel", "prewitt", "roberts", "laplacian"})
    => \A i \in DOMAIN edgeCostMap.costs :
          /\ 0 <= edgeCostMap.costs[i] /\ edgeCostMap.costs[i] <= Scale
          /\ HasGradient(i)
             => /\ Magnitude2(i) = 0 => edgeCostMap.costs[i] = Scale
                /\ Magnitude2(i) >= 255 * 255 => edgeCostMap.costs[i] = 0
                /\ (0 < Magnitude2(i) /\ Magnitude2(i) < 255 * 255)
                   => (0 < edgeCostMap.costs[i] /\ edgeCostMap.costs[i] < Scale)

\* The image, or the field, seen in a mirror standing upright: columns reversed.
Mirrored(w, data) ==
    [i \in DOMAIN data |-> data[(i \div w) * w + (w - 1 - (i % w))]]

\* C33: with Sobel and Prewitt the edge strength does not depend on the polarity
\* of a step: the cost field of the mirrored image is the mirror of the cost
\* field of the image, so a step from dark to bright costs what the step from
\* bright to dark costs.
C33_MirrorImageMirrorsCosts ==
    (edgePc = "done" /\ edgeOptions.edgeMethod \in {"sobel", "prewitt"})
    => ComputeEdgeMapOn([edgeImage EXCEPT !.data = Mirrored(edgeImage.width, @)],
                        edgeOptions).costMap.costs
          = Mirrored(edgeImage.width, edgeCostMap.costs)

\* ---------------------------------------------------------------- a stroke in predictive mode

\* Pointer positions of a stroke that runs to the left, from (3,0) to (0,0), by
\* way of points half a pixel below and above the line it follows.
StrokePoints ==
    {Pt(3, 0), Pt(0, 0),
     [x |-> (3 * Scale) \div 2, y |-> Scale \div 2],
     [x |-> (3 * Scale) \div 2, y |-> 0 - (Scale \div 2)]}

\* new LassoEngine({anchorMode: 'predictive', ...}) without a cost field.
InitStroke ==
    /\ lassoOptions = [Direct EXCEPT !.anchorMode = "predictive"]
    /\ lassoCostMap = CreateInitialState(lassoOptions).costMap
    /\ isActive = CreateInitialState(lassoOptions).isActive
    /\ currentPath = CreateInitialState(lassoOptions).currentPath
    /\ lazyCursor = CreateInitialState(lassoOptions).lazyCursor
    /\ previewPath = CreateInitialState(lassoOptions).previewPath
    /\ metrics = CreateInitialState(lassoOptions).metrics
    /\ trajectoryHistory = CreateInitialState(lassoOptions).trajectoryHistory
    /\ lastAnchorTime = CreateInitialState(lassoOptions).lastAnchorTime
    /\ frameCount = CreateInitialState(lassoOptions).frameCount
    /\ fpsUpdateTime = CreateInitialState(lassoOptions).fpsUpdateTime
    /\ uuidCount = CreateInitialState(lassoOptions).uuidCount
    /\ now = 0
    /\ calls = 0
    /\ optionChanges = 0
    /\ lastCall = Null
    /\ FloodUnused
    /\ PathIdle
    /\ UtilUnused
    /\ MaskUnused
    /\ EdgeUnused

\* startLasso(p), the pointer pressed at a point of the stroke
StartStroke ==
    /\ calls < MaxCalls
    /\ \E p \in StrokePoints :
          /\ \E after \in {StartLassoOn(Engine, p)} : EngineBecomes(after)
          /\ lastCall' = [op |-> "startLasso", arg |-> p, returned |-> Null]
    /\ calls' = calls + 1
    /\ UNCHANGED <<now, optionChanges>>
    /\ UNCHANGED exceptLasso

\* updateLasso(p), the pointer moved to a point of the stroke
UpdateStroke ==
    /\ calls < MaxCalls
    /\ \E p \in StrokePoints :
          /\ \E after \in {UpdateLassoOn(Engine, p)} : EngineBecomes(after)
          /\ lastCall' = [op |-> "updateLasso", arg |-> p, returned |-> Null]
    /\ calls' = calls + 1
    /\ UNCHANGED <<now, optionChanges>>
    /\ UNCHANGED exceptLasso

NextStroke == StartStroke \/ UpdateStroke

SpecStroke == InitStroke /\ [][NextStroke]_vars

\* The angle between two headings: their difference, taken the short way round.
TrueAngleDiff(angle1, angle2) ==
    IF Abs(angle2 - angle1) > Pi THEN 2 * Pi - Abs(angle2 - angle1)
    ELSE Abs(angle2 - angle1)

\* The sum of the angles between successive headings over the points of recent
\* from index i on.
RECURSIVE TotalTrueAngleDiff(_, _)
TotalTrueAngleDiff(recent, i) ==
    IF i > Len(recent) THEN 0
    ELSE TrueAngleDiff(MathAtan2(recent[i - 1].y - recent[i - 2].y,
                                 recent[i - 1].x - recent[i - 2].x),
                       MathAtan2(recent[i].y - recent[i - 1].y,
                                 recent[i].x - recent[i - 1].x))
         + TotalTrueAngleDiff(recent, i + 1)

\* C31: in predictive mode a call of updateLasso adds an anchor only when the
\* trajectory buffer holds 3 points or more and the average angle between
\* successive headings over its last 5 points, each taken the short way round,
\* is above 45 degrees; a stroke to the left whose headings swing about 180
\* degrees adds none.
C31_PredictiveNeedsTrueTurn ==
    [][(/\ isActive /\ currentPath # Null
        /\ lassoOptions.anchorMode = "predictive"
        /\ Called("updateLasso")
        /\ currentPath' # Null
        /\ Len(currentPath'.anchors) > Len(currentPath.anchors))
       => /\ Len(trajectoryHistory') >= 3
          /\ 4 * TotalTrueAngleDiff(LastOf(trajectoryHistory', 5), 3)
                > Pi * (Len(LastOf(trajectoryHistory', 5)) - 2)]_vars

====
